---------------------------- MODULE Spec2Model ----------------------------
(***************************************************************************)
(* CloudGuard: the remediation pipeline of src/src/api and the check cycle *)
(* of src/src/watcher.                                                     *)
(*                                                                         *)
(*   jwt_handler.py    capability tokens (generate_token, validate_token)  *)
(*   safety_rules.py   the policy engine (blocklist, rate limit, ...)      *)
(*   gcp_executor.py   stop_instance, create_snapshot, snapshot_and_stop   *)
(*   main.py           the action entry point execute_action               *)
(*   baseline_tracker.py  the baseline store and the anomaly detector      *)
(*   watcher.py        the check cycle run_check and its alert             *)
(*   email_service.py  the action URLs of an alert                         *)
(*                                                                         *)
(* Time is counted in ticks, TicksPerSec ticks to the second, so that the  *)
(* whole-second resolution of a JWT's exp / iat claims and the full        *)
(* resolution of datetime.utcnow() are both visible.  An hour is scaled    *)
(* down to HourSecs seconds.                                               *)
(***************************************************************************)
EXTENDS Integers, Sequences, FiniteSets, TLC

VARIABLES
    now,             \* datetime.utcnow(), in ticks
    expiry_hours,    \* JWTHandler.expiry_hours (config.JWT_EXPIRATION_HOURS)
    issued,          \* the tokens issued so far, each with the arguments of its issue
    tokRes,          \* the last call of validate_token: token, time, outcome
    expiredSeen,     \* the tokens validate_token has reported Expired
    dry_run,         \* config.DRY_RUN_MODE (SafetyRules.dry_run, GCPExecutor.dry_run)
    blocklist_tags,  \* SafetyRules.blocklist_tags
    action_history,  \* SafetyRules._action_history: user_email -> timestamps
    req,             \* the requests to execute_action, by request id
    executed,        \* per user_email, the times an external stop call succeeded
    polRes,          \* the last call of validate_action: arguments and verdict
    gcp_executor,    \* the lazy singleton _gcp_executor: "none" until it is created
    anomaly_sensitivity, \* config.ANOMALY_SENSITIVITY, in hundredths
    state,           \* BaselineTracker.state["daily_spend"] of the watcher process
    state_file,      \* the content of baseline_state.json
    loaded,          \* what _load_state returned in a second process
    check,           \* the run of CloudGuardWatcher.run_check: position and check_result
    mail             \* the alert e-mails handed to SendGrid

tokVars == <<issued, tokRes, expiredSeen>>
cfgVars == <<expiry_hours, dry_run, blocklist_tags>>
watchVars == <<anomaly_sensitivity, state, state_file, loaded, check, mail>>
vars == <<now, expiry_hours, issued, tokRes, expiredSeen, dry_run, blocklist_tags,
          action_history, req, executed, polRes, gcp_executor,
          anomaly_sensitivity, state, state_file, loaded, check, mail>>

----------------------------------------------------------------------------
(* Bounds of the model *)

MaxTime == 4           \* the clock runs from 0 to MaxTime ticks
TicksPerSec == 2       \* clock resolution: ticks per second
HourSecs == 1          \* the scaled length of an hour, in seconds
MaxExpiryHours == 1    \* JWT_EXPIRATION_HOURS ranges over 0..MaxExpiryHours

Hour == HourSecs * TicksPerSec     \* timedelta(hours=1), in ticks

----------------------------------------------------------------------------
(* Values *)

None == "None"
Actions == {"stop", "snapshot", "ignore"}
ResourceIds == {"vm1", "zones/z1/instances/vm2"}
ProjectIds == {"proj"}
ResourceTypes == {"instance", "disk"}
Savings == {0, 150}
Emails == {"ops@example.com", None}

NoPayload == [jti |-> 0]
NoToken == [payload |-> NoPayload, sig |-> <<>>, wellformed |-> FALSE]

\* JWTHandler.secret, and a key that is not the server's
secret == "server-secret"
OtherKey == "other-key"

----------------------------------------------------------------------------
(* PyJWT, as jwt_handler.py uses it *)

\* timegm(dt.utctimetuple()): a datetime claim is encoded in whole seconds
Secs(t) == t \div TicksPerSec

\* HMAC-SHA256 as an ideal MAC: the tag determines key and message
Sign(key, payload) == <<key, payload>>

\* jwt.encode(payload, key, algorithm="HS256"): the datetime claims exp and
\* iat become integer seconds, every other claim is serialised as it is
jwt_encode(payload, key) ==
    LET p == [payload EXCEPT !.iat = Secs(@), !.exp = Secs(@)]
    IN  [payload |-> p, sig |-> Sign(key, p), wellformed |-> TRUE]

\* jwt.decode(token, key, algorithms=["HS256"]) at time t: the segments are
\* decoded, then the signature is verified, then the exp and iat claims
jwt_decode(token, key, t) ==
    IF ~token.wellformed THEN [kind |-> "Invalid", payload |-> token.payload]
    ELSE IF token.sig # Sign(key, token.payload)
         THEN [kind |-> "Invalid", payload |-> token.payload]
    ELSE IF token.payload.exp * TicksPerSec <= t
         THEN [kind |-> "Expired", payload |-> token.payload]
    ELSE IF token.payload.iat * TicksPerSec > t
         THEN [kind |-> "Invalid", payload |-> token.payload]
    ELSE [kind |-> "grant", payload |-> token.payload]

----------------------------------------------------------------------------
(* jwt_handler.py *)

\* secrets.token_urlsafe(16): a value no earlier token carries
fresh_jti == Cardinality(issued) + 1

\* generate_token with the resource type fixed to its default
generate_token_default_type(resource_id, action, project_id, resource_type, estimated_savings, user_email) ==
    LET payload == [iat |-> now,
                    exp |-> now + expiry_hours * Hour,
                    jti |-> fresh_jti,
                    resource_id |-> resource_id,
                    action |-> action,
                    project_id |-> project_id,
                    resource_type |-> "instance",
                    estimated_savings |-> estimated_savings,
                    user_email |-> user_email,
                    issued_at |-> now]
    IN  jwt_encode(payload, secret)

\* generate_token with the expiry left at the time of issue
generate_token_no_ttl(resource_id, action, project_id, resource_type, estimated_savings, user_email) ==
    LET payload == [iat |-> now,
                    exp |-> now,
                    jti |-> fresh_jti,
                    resource_id |-> resource_id,
                    action |-> action,
                    project_id |-> project_id,
                    resource_type |-> resource_type,
                    estimated_savings |-> estimated_savings,
                    user_email |-> user_email,
                    issued_at |-> now]
    IN  jwt_encode(payload, secret)

generate_token(resource_id, action, project_id, resource_type, estimated_savings, user_email) ==
    LET expiry == now + expiry_hours * Hour
        payload == [iat |-> now,
                    exp |-> expiry,
                    jti |-> fresh_jti,
                    resource_id |-> resource_id,
                    action |-> action,
                    project_id |-> project_id,
                    resource_type |-> resource_type,
                    estimated_savings |-> estimated_savings,
                    user_email |-> user_email,
                    issued_at |-> now]
    IN  jwt_encode(payload, secret)

\* validate_token decoding without verifying the signature
validate_token_unverified(token) ==
    IF ~token.wellformed THEN [kind |-> "Invalid", payload |-> token.payload]
    ELSE IF token.payload.exp * TicksPerSec <= now
         THEN [kind |-> "Expired", payload |-> token.payload]
    ELSE [kind |-> "grant", payload |-> token.payload]

\* validate_token refusing every token once an action has been carried out
validate_token_single_use(token) ==
    IF \E e \in DOMAIN executed : executed[e] # <<>>
    THEN [kind |-> "Invalid", payload |-> token.payload]
    ELSE jwt_decode(token, secret, now)

validate_token(token) == jwt_decode(token, secret, now)

----------------------------------------------------------------------------
(* safety_rules.py *)

MaxActionsPerHour == 2     \* SafetyRules.max_actions_per_hour (MAX_ACTIONS_PER_HOUR)

\* str.lower() on the strings of the model
Lower(s) ==
    CASE s = "PRODUCTION" -> "production"
      [] s = "Production" -> "production"
      [] s = "Prod" -> "prod"
      [] s = "Critical" -> "critical"
      [] s = "Team" -> "team"
      [] OTHER -> s

\* decimal digits of a small count
Str(n) == IF n \in 0..9
          THEN <<"0", "1", "2", "3", "4", "5", "6", "7", "8", "9">>[n + 1]
          ELSE "many"

\* f"{x:.2f}" on the amounts of the model
Fmt2f(x) == CASE x = 0 -> "0.00" [] x = 99 -> "99.00" [] x = 100 -> "100.00" [] x = 150 -> "150.00"
              [] OTHER -> "?.??"

\* dict.get(key, default)
Get(d, key, default) == IF key \in DOMAIN d THEN d[key] ELSE default

LabelValues(labels) == {labels[k] : k \in DOMAIN labels}

\* the loop over self.blocklist_tags, from the first tag on
RECURSIVE scan_blocklist_tags(_, _)
scan_blocklist_tags(tags, resource_labels) ==
    IF tags = <<>> THEN [blocked |-> FALSE, reason |-> <<>>]
    ELSE LET tag == Head(tags)
         IN  IF Lower(tag) \in {Lower(k) : k \in DOMAIN resource_labels}
             THEN [blocked |-> TRUE,
                   reason |-> <<"Resource has blocklisted label: ", tag>>]
             ELSE IF Lower(tag) \in {Lower(v) : v \in LabelValues(resource_labels)}
             THEN [blocked |-> TRUE,
                   reason |-> <<"Resource has blocklisted label value: ", tag>>]
             ELSE scan_blocklist_tags(Tail(tags), resource_labels)

\* the special check for common production indicators
env_label(resource_labels) ==
    Get(resource_labels, "env", Get(resource_labels, "environment", ""))

\* check_blocklist looking for the tags among the label keys only
check_blocklist_keys_only(resource_labels) ==
    LET hits == {i \in DOMAIN blocklist_tags :
                    Lower(blocklist_tags[i]) \in {Lower(k) : k \in DOMAIN resource_labels}}
        first == CHOOSE i \in hits : \A j \in hits : i <= j
    IN  IF hits # {}
        THEN [blocked |-> TRUE,
              reason |-> <<"Resource has blocklisted label: ", blocklist_tags[first]>>]
        ELSE IF Lower(env_label(resource_labels)) \in {"production", "prod"}
             THEN [blocked |-> TRUE,
                   reason |-> <<"Resource is marked as production environment">>]
        ELSE [blocked |-> FALSE, reason |-> <<>>]

check_blocklist(resource_labels) ==
    LET generic == scan_blocklist_tags(blocklist_tags, resource_labels)
    IN  IF generic.blocked THEN generic
        ELSE IF Lower(env_label(resource_labels)) \in {"production", "prod"}
             THEN [blocked |-> TRUE,
                   reason |-> <<"Resource is marked as production environment">>]
        ELSE [blocked |-> FALSE, reason |-> <<>>]

\* the list comprehension that cleans old entries at time t
recent_entries(history, t) == SelectSeq(history, LAMBDA x : x > t - Hour)

\* check_rate_limit counting the recent entries of every user, as one list
\* shared by all users would
check_rate_limit_all_users(user_email) ==
    LET kept == recent_entries(action_history[user_email], now)
        others == {e \in DOMAIN action_history : e # user_email}
        action_count == Len(kept) +
            (IF \E e \in others : Len(recent_entries(action_history[e], now)) > 0
             THEN MaxActionsPerHour ELSE 0)
    IN  IF action_count >= MaxActionsPerHour
        THEN [history |-> kept, limited |-> TRUE,
              reason |-> <<"Rate limit exceeded: ", Str(action_count), "/",
                           Str(MaxActionsPerHour), " actions in the last hour">>]
        ELSE [history |-> kept, limited |-> FALSE, reason |-> <<>>]

\* check_rate_limit comparing with > where the code compares with >=
check_rate_limit_off_by_one(user_email) ==
    LET kept == recent_entries(action_history[user_email], now)
        action_count == Len(kept)
    IN  IF action_count > MaxActionsPerHour
        THEN [history |-> kept, limited |-> TRUE,
              reason |-> <<"Rate limit exceeded: ", Str(action_count), "/",
                           Str(MaxActionsPerHour), " actions in the last hour">>]
        ELSE [history |-> kept, limited |-> FALSE, reason |-> <<>>]

\* check_rate_limit: the user's entries after the clean-up, and the verdict
check_rate_limit(user_email) ==
    LET kept == recent_entries(action_history[user_email], now)
        action_count == Len(kept)
    IN  IF action_count >= MaxActionsPerHour
        THEN [history |-> kept, limited |-> TRUE,
              reason |-> <<"Rate limit exceeded: ", Str(action_count), "/",
                           Str(MaxActionsPerHour), " actions in the last hour">>]
        ELSE [history |-> kept, limited |-> FALSE, reason |-> <<>>]

\* record_action appending the timestamp twice
record_action_twice(user_email) == Append(Append(action_history[user_email], now), now)

\* record_action: the user's entries after the append
record_action(user_email) == Append(action_history[user_email], now)

ConfirmationThreshold == 100   \* SafetyRules.confirmation_threshold

\* check_high_cost asking for confirmation only above the threshold
check_high_cost_above(estimated_savings) ==
    IF estimated_savings > ConfirmationThreshold
    THEN [needs_confirmation |-> TRUE,
          reason |-> <<"High-cost action: $", Fmt2f(estimated_savings),
                       "/month requires confirmation">>]
    ELSE [needs_confirmation |-> FALSE, reason |-> <<>>]

check_high_cost(estimated_savings) ==
    IF estimated_savings >= ConfirmationThreshold
    THEN [needs_confirmation |-> TRUE,
          reason |-> <<"High-cost action: $", Fmt2f(estimated_savings),
                       "/month requires confirmation">>]
    ELSE [needs_confirmation |-> FALSE, reason |-> <<>>]

\* validate_action evaluating the rate-limit check before it looks at the
\* result of the blocklist check
validate_action_rate_limit_first(action, resource_id, resource_labels, user_email, estimated_savings) ==
    LET bl == check_blocklist(resource_labels)
        rl == check_rate_limit(user_email)
        hc == check_high_cost(estimated_savings)
        base == [is_safe |-> FALSE, reason |-> <<>>, dry_run |-> dry_run,
                 checks_passed |-> <<>>, checks_failed |-> <<>>,
                 needs_confirmation |-> FALSE, confirmation_reason |-> <<>>,
                 dry_run_mode |-> FALSE,
                 history |-> action_history[user_email]]
    IN  IF bl.blocked
        THEN [base EXCEPT !.reason = bl.reason,
                          !.checks_failed = << <<"blocklist", bl.reason>> >>,
                          !.history = rl.history]
        ELSE IF rl.limited
        THEN [base EXCEPT !.reason = rl.reason,
                          !.checks_passed = <<"blocklist">>,
                          !.checks_failed = << <<"rate_limit", rl.reason>> >>,
                          !.history = rl.history]
        ELSE [base EXCEPT !.is_safe = TRUE,
                          !.reason = <<"All safety checks passed">>,
                          !.checks_passed = <<"blocklist", "rate_limit", "high_cost">>,
                          !.needs_confirmation = hc.needs_confirmation,
                          !.confirmation_reason = hc.reason,
                          !.dry_run_mode = dry_run,
                          !.history = rl.history]

\* validate_action: (is_safe, reason, details), and the user's entries of
\* _action_history as the call leaves them
validate_action(action, resource_id, resource_labels, user_email, estimated_savings) ==
    LET bl == check_blocklist(resource_labels)
        rl == check_rate_limit(user_email)
        hc == check_high_cost(estimated_savings)
        base == [is_safe |-> FALSE, reason |-> <<>>, dry_run |-> dry_run,
                 checks_passed |-> <<>>, checks_failed |-> <<>>,
                 needs_confirmation |-> FALSE, confirmation_reason |-> <<>>,
                 dry_run_mode |-> FALSE,
                 history |-> action_history[user_email]]
    IN  IF bl.blocked
        THEN [base EXCEPT !.reason = bl.reason,
                          !.checks_failed = << <<"blocklist", bl.reason>> >>]
        ELSE IF rl.limited
        THEN [base EXCEPT !.reason = rl.reason,
                          !.checks_passed = <<"blocklist">>,
                          !.checks_failed = << <<"rate_limit", rl.reason>> >>,
                          !.history = rl.history]
        ELSE [base EXCEPT !.is_safe = TRUE,
                          !.reason = <<"All safety checks passed">>,
                          !.checks_passed = <<"blocklist", "rate_limit", "high_cost">>,
                          !.needs_confirmation = hc.needs_confirmation,
                          !.confirmation_reason = hc.reason,
                          !.dry_run_mode = dry_run,
                          !.history = rl.history]

----------------------------------------------------------------------------
(* main.py and gcp_executor.py: one request to /api/v1/execute/{action}     *)

MaxReq == 2       \* at most MaxReq requests are pending or running at a time
MaxDisks == 2     \* an instance has 0..MaxDisks disks

ReqIds == DOMAIN req     \* the requests at the server, in the order of their arrival
DefaultTags == <<"production", "prod", "critical">>   \* config.BLOCKLIST_TAGS
DefaultZone == "us-central1-a"
DiskNames == <<"disk1", "disk2", "disk3", "disk4">>

\* the labels get_instance may report in the orchestrated runs
OrchLabelSets == {<<>>, [k \in {"env"} |-> "Prod"], [k \in {"team"} |-> "data"]}

NoVerdict == [is_safe |-> FALSE, reason |-> <<>>, dry_run |-> FALSE,
              checks_passed |-> <<>>, checks_failed |-> <<>>,
              needs_confirmation |-> FALSE, confirmation_reason |-> <<>>,
              dry_run_mode |-> FALSE, history |-> <<>>]

NewReq == [pc |-> "queued", action |-> "", token |-> NoToken, grant |-> NoPayload,
            via |-> "", user_email |-> "", instance_name |-> "", zone |-> "",
            ndisks |-> 0, disk |-> 0, snapshots |-> <<>>, status_seen |-> "",
            checked |-> FALSE, verdict |-> NoVerdict,
            log |-> <<>>, status |-> 0, title |-> "", message |-> <<>>]

\* resource_id.split("/")
Split(resource_id) ==
    IF resource_id = "zones/z1/instances/vm2"
    THEN <<"zones", "z1", "instances", "vm2">>
    ELSE <<resource_id>>

\* execute_action, lines 179-187: the instance name and the zone
parse_instance_name(resource_id) ==
    LET parts == Split(resource_id) IN parts[Len(parts)]
parse_zone(resource_id) ==
    LET parts == Split(resource_id)
    IN  IF Len(parts) > 1
        THEN (IF parts[1] = "zones" THEN parts[2] ELSE DefaultZone)
        ELSE DefaultZone

\* the HTMLResponse of execute_action
Response(rq, code, title, message) ==
    [rq EXCEPT !.pc = "done", !.status = code, !.title = title, !.message = message]

\* execute_action returning the error page without its status_code=400
action_result_default_status(rq, success, message) ==
    IF success THEN Response(rq, 200, "Action Completed", message)
    ELSE Response(rq, 200, "Action Failed", message)

\* execute_action, lines 205-215: the page for (success, message)
action_result(rq, success, message) ==
    IF success THEN Response(rq, 200, "Action Completed", message)
    ELSE Response(rq, 400, "Action Failed", message)

\* snapshot_and_stop returning what stop_instance returned
stop_return_passed_on(rq, success, message) == action_result(rq, success, message)

\* the return of stop_instance, through snapshot_and_stop (lines 250-256)
\* when that is the caller
stop_return(rq, success, message) ==
    IF rq.via = "snapshot"
    THEN action_result(rq, success,
           IF success
           THEN <<"Snapshots created and instance ", rq.instance_name, " stopped">>
           ELSE <<"Snapshots created but failed to stop: ">> \o message)
    ELSE action_result(rq, success, message)

\* handlers run in a pool of threads, as those of a plain def would
loop_free_threads(r) == TRUE

\* The handler is an async def with no await in it: once the event loop has
\* started it, no other handler runs until it has returned its response.
loop_free(r) == \A q \in ReqIds \ {r} : req[q].pc = "queued"

\* execute_action without the return of lines 167-173: "ignore" reaches the
\* HTTPException of line 203
dispatch_no_ignore(got, action, payload) ==
    LET ok == [got EXCEPT !.grant = payload, !.user_email = payload.user_email]
    IN  IF action = "ignore"
        THEN Response(ok, 400, "", <<"Unknown action: ", action>>)
        ELSE [ok EXCEPT !.instance_name = parse_instance_name(payload.resource_id),
                        !.zone = parse_zone(payload.resource_id),
                        !.via = action,
                        !.pc = IF action = "stop" THEN "stop_instance"
                               ELSE "snapshot_and_stop"]

\* the continuation of execute_action for a validated payload (lines 157-187)
dispatch(got, action, payload) ==
    LET ok == [got EXCEPT !.grant = payload, !.user_email = payload.user_email]
    IN  IF action = "ignore"
        THEN Response(ok, 200, "Alert Dismissed",
               <<"You have dismissed the alert for ", payload.resource_id,
                 ". No action was taken.">>)
        ELSE [ok EXCEPT !.instance_name = parse_instance_name(payload.resource_id),
                        !.zone = parse_zone(payload.resource_id),
                        !.via = action,
                        !.pc = IF action = "stop" THEN "stop_instance"
                               ELSE "snapshot_and_stop"]

\* execute_action whose handler of an expired token logs but does not return
execute_action_no_return(rq, action, token) ==
    LET v == validate_token(token)
        got == [rq EXCEPT !.action = action, !.token = token]
    IN  IF v.kind = "Invalid"
        THEN Response(got, 401, "Invalid Token",
               <<"This action link is invalid. Please use the link from your alert email.">>)
        ELSE dispatch(got, action, v.payload)

\* execute_action with the handler of InvalidTokenError first: it catches
\* ExpiredSignatureError, its subclass, too
execute_action_one_handler(rq, action, token) ==
    LET v == validate_token(token)
        got == [rq EXCEPT !.action = action, !.token = token]
    IN  IF v.kind \in {"Expired", "Invalid"}
        THEN Response(got, 401, "Invalid Token",
               <<"This action link is invalid. Please use the link from your alert email.">>)
        ELSE dispatch(got, action, v.payload)

\* execute_action up to its first call of the executor (lines 131-187)
execute_action(rq, action, token) ==
    LET v == validate_token(token)
        got == [rq EXCEPT !.action = action, !.token = token]
    IN  IF v.kind = "Expired"
        THEN Response(got, 401, "Token Expired",
               <<"This action link has expired. Please wait for the next alert email.">>)
        ELSE IF v.kind = "Invalid"
        THEN Response(got, 401, "Invalid Token",
               <<"This action link is invalid. Please use the link from your alert email.">>)
        ELSE dispatch(got, action, v.payload)

OrchIdle ==
    /\ gcp_executor = "none"
    /\ action_history = [e \in Emails |-> <<>>]
    /\ executed = [e \in Emails |-> <<>>]
    /\ req = <<>>

\* baseline_state.json does not exist
NoFile == [exists |-> FALSE, whole |-> FALSE, daily_spend |-> <<>>]

\* _load_state has not been called in the second process
NoLoad == [called |-> FALSE, file |-> NoFile, daily_spend |-> <<>>]

\* detect_anomaly has not been called
NoAnomaly == [is_anomaly |-> FALSE, severity |-> "", message |-> [text |-> "", percent |-> 0],
              baseline |-> 0, deviation_percent |-> 0, z_score |-> 0]

\* run_check has not been called
NoCheck == [pc |-> "run_check", status |-> "success", error |-> "", anomaly_detected |-> FALSE,
            before |-> <<>>, current_total |-> 0, top_contributors |-> <<>>,
            daily_pattern |-> <<>>, budget_exceeded |-> FALSE, saved |-> "",
            today_spend |-> 0, detected |-> FALSE, anomaly |-> NoAnomaly,
            alerted |-> FALSE, resource_id |-> "", urls |-> <<>>, log |-> <<>>]

\* no watcher process is running
WatchIdle ==
    /\ anomaly_sensitivity = 250
    /\ state = <<>>
    /\ state_file = NoFile
    /\ loaded = NoLoad
    /\ check = NoCheck
    /\ mail = <<>>

----------------------------------------------------------------------------
(* The token service on its own: issue one token, present it (or a token   *)
(* made from it without the secret) at any later time.                     *)

IssueArgs ==
    [resource_id : ResourceIds, action : Actions, project_id : ProjectIds,
     resource_type : ResourceTypes, estimated_savings : Savings,
     user_email : Emails]

\* the tokens of the orchestrated runs: one for any of the three actions
OrchIssueArgs ==
    [resource_id : {"zones/z1/instances/vm2"}, action : Actions, project_id : ProjectIds,
     resource_type : {"instance"}, estimated_savings : {150},
     user_email : {"ops@example.com"}]

\* a payload that differs from p in one claim
TamperedPayloads(p) ==
    ({[p EXCEPT !.action = a] : a \in Actions}
       \cup {[p EXCEPT !.resource_id = r] : r \in ResourceIds}
       \cup {[p EXCEPT !.exp = @ + HourSecs]}) \ {p}

\* what a holder of token tk can present without knowing the secret
Presentable(tk) ==
    {tk}
      \cup {[tk EXCEPT !.payload = p] : p \in TamperedPayloads(tk.payload)}
      \cup {[tk EXCEPT !.sig = Sign(OtherKey, tk.payload)]}
      \cup {[tk EXCEPT !.wellformed = FALSE]}

NoPolRes == [labels |-> <<>>, user_email |-> "", estimated_savings |-> 0, at |-> 0,
             before |-> <<>>, verdict |-> NoVerdict, called |-> FALSE]
NoResult == [token |-> NoToken, at |-> 0, kind |-> "none", payload |-> NoPayload]

TokInit ==
    /\ now = 0
    /\ expiry_hours \in 0..MaxExpiryHours
    /\ issued = {}
    /\ tokRes = NoResult
    /\ expiredSeen = {}
    /\ dry_run = FALSE
    /\ blocklist_tags = DefaultTags
    /\ polRes = NoPolRes
    /\ OrchIdle
    /\ WatchIdle

Tick ==
    /\ now < MaxTime
    /\ now' = now + 1
    /\ UNCHANGED <<gcp_executor, cfgVars, watchVars, tokVars, action_history, req, executed, polRes>>

TokIssue ==
    /\ issued = {}
    /\ \E a \in IssueArgs :
         issued' = {[args |-> a,
                     at |-> now,
                     token |-> generate_token(a.resource_id, a.action, a.project_id,
                                              a.resource_type, a.estimated_savings,
                                              a.user_email)]}
    /\ UNCHANGED <<now, gcp_executor, cfgVars, watchVars, tokRes, expiredSeen, action_history, req, executed, polRes>>

TokValidate ==
    /\ \E i \in issued : \E tk \in Presentable(i.token) :
         LET r == validate_token(tk)
         IN  /\ tokRes' = [token |-> tk, at |-> now, kind |-> r.kind, payload |-> r.payload]
             /\ expiredSeen' = IF r.kind = "Expired" THEN expiredSeen \cup {tk}
                               ELSE expiredSeen
    /\ UNCHANGED <<now, gcp_executor, cfgVars, watchVars, issued, action_history, req, executed, polRes>>

TokNext == Tick \/ TokIssue \/ TokValidate

SpecToken == TokInit /\ [][TokNext]_vars

----------------------------------------------------------------------------
(* The action entry point: requests arrive, the event loop runs one        *)
(* handler at a time, time passes while a handler waits for Google Cloud.  *)

Init ==
    /\ now = 0
    /\ expiry_hours = MaxExpiryHours
    /\ issued = {}
    /\ tokRes = NoResult
    /\ expiredSeen = {}
    /\ dry_run \in BOOLEAN
    /\ blocklist_tags = DefaultTags
    /\ polRes = NoPolRes
    /\ OrchIdle
    /\ WatchIdle

\* a request reaches the server and waits for the event loop
Arrive ==
    /\ Len(req) < MaxReq
    /\ req' = Append(req, NewReq)
    /\ UNCHANGED <<now, gcp_executor, cfgVars, watchVars, tokVars, action_history, executed, polRes>>

\* the first use of gcp_executor (main.py:191, 197) creates the GCPExecutor:
\* get_gcp_executor, gcp_executor.py:262-266.  When its constructor raises
\* (lines 36-38) nothing in execute_action catches the exception, the server
\* answers 500 and the next request tries again.
get_gcp_executor(rq, created) ==
    IF rq.pc = "done" \/ gcp_executor = "ready" \/ created THEN rq
    ELSE Response(rq, 500, "Internal Server Error", <<>>)

\* the event loop starts the handler: execute_action, lines 118-203
Begin(r) ==
    /\ req[r].pc = "queued"
    /\ \A q \in 1..(r - 1) : req[q].pc # "queued"
    /\ loop_free(r)
    /\ \E action \in Actions : \E i \in issued : \E token \in Presentable(i.token) :
       \E created \in BOOLEAN :
         LET rq == execute_action(req[r], action, token)
         IN  /\ req' = [req EXCEPT ![r] = get_gcp_executor(rq, created)]
             /\ gcp_executor' = IF rq.pc # "done" /\ created THEN "ready"
                                ELSE gcp_executor
    /\ UNCHANGED <<now, cfgVars, watchVars, tokVars, action_history, executed, polRes>>

\* snapshot_and_stop, lines 230-236: get the instance and its disks
snapshot_and_stop(r) ==
    /\ req[r].pc = "snapshot_and_stop"
    /\ \E found \in BOOLEAN : \E n \in 0..MaxDisks :
         LET rq == [req[r] EXCEPT !.log = Append(@, "instances.get")]
         IN  req' = [req EXCEPT ![r] =
                 IF ~found
                 THEN action_result(rq, FALSE,
                        <<"Instance not found: ", rq.instance_name>>)
                 ELSE [rq EXCEPT !.ndisks = n, !.disk = 1,
                                 !.pc = IF n = 0 THEN "stop_instance"
                                        ELSE "create_snapshot"]]
    /\ UNCHANGED <<now, gcp_executor, cfgVars, watchVars, tokVars, action_history, executed, polRes>>

\* create_snapshot without the dry-run return of lines 170-173
snapshot_calls_no_dry_run(outcome) ==
    IF outcome = "get_failed" THEN <<"disks.get">>
    ELSE <<"disks.get", "snapshots.insert">>

\* create_snapshot, lines 170-196: the external calls it makes
snapshot_calls(outcome) ==
    IF dry_run THEN <<>>
    ELSE IF outcome = "get_failed" THEN <<"disks.get">>
    ELSE <<"disks.get", "snapshots.insert">>

\* the loop of snapshot_and_stop without the return of lines 246-247
after_snapshot_no_abort(rq, k, success) ==
    [rq EXCEPT !.disk = k + 1,
               !.pc = IF k = rq.ndisks THEN "stop_instance" ELSE "create_snapshot"]

\* snapshot_and_stop, lines 246-250: return on the first failure, else go
\* on to the next disk and after the last disk to stop_instance
after_snapshot(rq, k, success) ==
    IF ~success
    THEN action_result(rq, FALSE,
           <<"Failed to snapshot disk ", DiskNames[k], ": ",
             "Failed to create snapshot: ", "error">>)
    ELSE [rq EXCEPT !.disk = k + 1,
                    !.pc = IF k = rq.ndisks THEN "stop_instance" ELSE "create_snapshot"]

\* one turn of the loop of snapshot_and_stop (lines 236-247), with its call
\* of create_snapshot (lines 140-205)
create_snapshot(r) ==
    /\ req[r].pc = "create_snapshot"
    /\ \E outcome \in {"ok", "get_failed", "insert_failed"} :
         LET k == req[r].disk
             success == dry_run \/ outcome = "ok"
             rq == [req[r] EXCEPT
                      !.log = @ \o snapshot_calls(outcome),
                      !.snapshots = Append(@, [disk |-> DiskNames[k], success |-> success])]
         IN  req' = [req EXCEPT ![r] = after_snapshot(rq, k, success)]
    /\ UNCHANGED <<now, gcp_executor, cfgVars, watchVars, tokVars, action_history, executed, polRes>>

\* stop_instance recording the action before its dry-run return
history_before_stop_recorded(v, status) ==
    IF v.is_safe /\ status # "TERMINATED" /\ dry_run
    THEN Append(v.history, now)
    ELSE v.history

\* stop_instance, lines 96-116: the actor's entries in _action_history when
\* stop_instance returns early or goes on to the stop call; validate_action
\* has cleaned them, nothing is appended
history_before_stop(v, status) == v.history

\* stop_instance running the safety checks before it looks at the result of
\* get_instance
stop_instance_checks_first(r) ==
    /\ req[r].pc = "stop_instance"
    /\ \E found \in BOOLEAN : \E labels \in OrchLabelSets :
       \E status \in {"RUNNING", "TERMINATED"} :
         LET rq == [req[r] EXCEPT !.log = Append(@, "instances.get"),
                                  !.status_seen = IF found THEN status ELSE "not found"]
             v == validate_action("stop", rq.instance_name, IF found THEN labels ELSE <<>>,
                                  rq.user_email, 0)
             ck == [rq EXCEPT !.checked = TRUE, !.verdict = v,
                              !.log = Append(@, IF v.is_safe THEN "policy:allowed"
                                                ELSE "policy:blocked")]
         IN  /\ action_history' = [action_history EXCEPT ![rq.user_email] =
                                       history_before_stop(v, status)]
             /\ req' = [req EXCEPT ![r] =
                   IF ~v.is_safe THEN stop_return(ck, FALSE, v.reason)
                   ELSE IF ~found
                   THEN stop_return(ck, FALSE, <<"Instance not found: ", rq.instance_name>>)
                   ELSE IF status = "TERMINATED"
                   THEN stop_return(ck, TRUE, <<"Instance is already stopped">>)
                   ELSE IF dry_run
                   THEN stop_return(ck, TRUE,
                          <<"DRY RUN: Would stop instance ", rq.instance_name>>)
                   ELSE [ck EXCEPT !.pc = "instances.stop"]]
    /\ UNCHANGED <<now, gcp_executor, cfgVars, watchVars, tokVars, executed, polRes>>

\* stop_instance, lines 87-116: get the instance, run the safety checks,
\* return early for a stopped instance and in dry-run mode
stop_instance(r) ==
    /\ req[r].pc = "stop_instance"
    /\ \E found \in BOOLEAN : \E labels \in OrchLabelSets :
       \E status \in {"RUNNING", "TERMINATED"} :
         LET rq == [req[r] EXCEPT !.log = Append(@, "instances.get"),
                                  !.status_seen = IF found THEN status ELSE "not found"]
             v == validate_action("stop", rq.instance_name, labels, rq.user_email, 0)
             ck == [rq EXCEPT !.checked = TRUE, !.verdict = v,
                              !.log = Append(@, IF v.is_safe THEN "policy:allowed"
                                                ELSE "policy:blocked")]
         IN  IF ~found
             THEN /\ req' = [req EXCEPT ![r] =
                        stop_return(rq, FALSE, <<"Instance not found: ", rq.instance_name>>)]
                  /\ UNCHANGED action_history
             ELSE /\ action_history' = [action_history EXCEPT ![rq.user_email] =
                                            history_before_stop(v, status)]
                  /\ req' = [req EXCEPT ![r] =
                        IF ~v.is_safe THEN stop_return(ck, FALSE, v.reason)
                        ELSE IF status = "TERMINATED"
                        THEN stop_return(ck, TRUE, <<"Instance is already stopped">>)
                        ELSE IF dry_run
                        THEN stop_return(ck, TRUE,
                               <<"DRY RUN: Would stop instance ", rq.instance_name>>)
                        ELSE [ck EXCEPT !.pc = "instances.stop"]]
    /\ UNCHANGED <<now, gcp_executor, cfgVars, watchVars, tokVars, executed, polRes>>

\* the external stop call made a second time when the first one fails
stop_call_retry(r) ==
    /\ req[r].pc = "instances.stop"
    /\ \E ok \in BOOLEAN :
         LET rq == [req[r] EXCEPT !.log = Append(@, "instances.stop")]
             first == \A k \in DOMAIN req[r].log : req[r].log[k] # "instances.stop"
         IN  IF ok
             THEN /\ action_history' =
                        [action_history EXCEPT ![rq.user_email] = record_action(rq.user_email)]
                  /\ executed' = [executed EXCEPT ![rq.user_email] = Append(@, now)]
                  /\ req' = [req EXCEPT ![r] =
                        stop_return([rq EXCEPT !.log = Append(@, "record_action")], TRUE,
                          <<"Instance ", rq.instance_name, " stopped successfully">>)]
             ELSE /\ req' = [req EXCEPT ![r] =
                        IF first THEN rq
                        ELSE stop_return(rq, FALSE, <<"Failed to stop instance: ", "error">>)]
                  /\ UNCHANGED <<action_history, executed>>
    /\ UNCHANGED <<now, gcp_executor, cfgVars, watchVars, tokVars, polRes>>

\* the external stop call made again and again for as long as it fails
stop_call_until_stopped(r) ==
    /\ req[r].pc = "instances.stop"
    /\ \E ok \in BOOLEAN :
         LET rq == [req[r] EXCEPT !.log = Append(@, "instances.stop")]
         IN  IF ok
             THEN /\ action_history' =
                        [action_history EXCEPT ![rq.user_email] = record_action(rq.user_email)]
                  /\ executed' = [executed EXCEPT ![rq.user_email] = Append(@, now)]
                  /\ req' = [req EXCEPT ![r] =
                        stop_return([rq EXCEPT !.log = Append(@, "record_action")], TRUE,
                          <<"Instance ", rq.instance_name, " stopped successfully">>)]
             ELSE /\ req' = [req EXCEPT ![r].status_seen =
                                 IF @ = "RUNNING" THEN "STOPPING" ELSE "RUNNING"]
                  /\ UNCHANGED <<action_history, executed>>
    /\ UNCHANGED <<now, gcp_executor, cfgVars, watchVars, tokVars, polRes>>

\* stop_instance, lines 118-138: the external stop call and what follows it
stop_call(r) ==
    /\ req[r].pc = "instances.stop"
    /\ \E ok \in BOOLEAN :
         LET rq == [req[r] EXCEPT !.log = Append(@, "instances.stop")]
         IN  IF ok
             THEN /\ action_history' =
                        [action_history EXCEPT ![rq.user_email] = record_action(rq.user_email)]
                  /\ executed' = [executed EXCEPT ![rq.user_email] = Append(@, now)]
                  /\ req' = [req EXCEPT ![r] =
                        stop_return([rq EXCEPT !.log = Append(@, "record_action")], TRUE,
                          <<"Instance ", rq.instance_name, " stopped successfully">>)]
             ELSE /\ req' = [req EXCEPT ![r] =
                        stop_return(rq, FALSE, <<"Failed to stop instance: ", "error">>)]
                  /\ UNCHANGED <<action_history, executed>>
    /\ UNCHANGED <<now, gcp_executor, cfgVars, watchVars, tokVars, polRes>>

\* the response has been sent
Reply(r) ==
    /\ req[r].pc = "done"
    /\ req' = [q \in 1..(Len(req) - 1) |-> IF q < r THEN req[q] ELSE req[q + 1]]
    /\ UNCHANGED <<now, gcp_executor, cfgVars, watchVars, tokVars, action_history, executed, polRes>>

OrchIssue ==
    /\ issued = {}
    /\ \E a \in OrchIssueArgs :
         issued' = {[args |-> a,
                     at |-> now,
                     token |-> generate_token(a.resource_id, a.action, a.project_id,
                                              a.resource_type, a.estimated_savings,
                                              a.user_email)]}
    /\ UNCHANGED <<now, gcp_executor, cfgVars, watchVars, tokRes, expiredSeen, action_history, req, executed, polRes>>

Next ==
    \/ Tick
    \/ OrchIssue
    \/ Arrive
    \/ \E r \in ReqIds : Begin(r)
    \/ \E r \in ReqIds : snapshot_and_stop(r)
    \/ \E r \in ReqIds : create_snapshot(r)
    \/ \E r \in ReqIds : stop_instance(r)
    \/ \E r \in ReqIds : stop_call(r)
    \/ \E r \in ReqIds : Reply(r)

Spec == Init /\ [][Next]_vars

\* a step of the event loop or of the handler it runs: it starts the handler
\* of the request that waits longest, every call the handler makes returns,
\* and the response is sent
HandlerStep ==
    \E r \in ReqIds :
        \/ Begin(r)
        \/ snapshot_and_stop(r)
        \/ create_snapshot(r)
        \/ stop_instance(r)
        \/ stop_call(r)
        \/ Reply(r)

\* the server keeps running and every external call returns
SpecLive == Init /\ [][Next]_vars /\ WF_vars(HandlerStep)

----------------------------------------------------------------------------
(* The policy engine on its own: validate_action on any labels, for any    *)
(* user, and record_action after an allowed verdict, as stop_instance      *)
(* calls them.                                                             *)

\* what [t.strip() for t in BLOCKLIST_TAGS.split(",")] can be: the default,
\* an empty BLOCKLIST_TAGS, and two custom lists
TagLists == {DefaultTags, <<"">>, <<"critical">>, <<"Team", "prod">>}

\* the estimated savings of the calls: just below and at the threshold
PolSavings == {ConfirmationThreshold - 1, ConfirmationThreshold}

PolLabelSets ==
    {<<>>,
     [k \in {"env"} |-> "Prod"],
     [k \in {"environment"} |-> "PRODUCTION"],
     [k \in {"env", "environment"} |-> IF k = "env" THEN "dev" ELSE "production"],
     [k \in {"team"} |-> "data"],
     [k \in {"tier"} |-> "Critical"]}

PolInit ==
    /\ now = 0
    /\ expiry_hours = MaxExpiryHours
    /\ issued = {}
    /\ tokRes = NoResult
    /\ expiredSeen = {}
    /\ \/ dry_run = FALSE /\ blocklist_tags \in TagLists
       \/ dry_run = TRUE /\ blocklist_tags = DefaultTags
    /\ polRes = NoPolRes
    /\ OrchIdle
    /\ WatchIdle

PolTick ==
    /\ polRes = NoPolRes
    /\ Tick

PolValidate ==
    /\ polRes = NoPolRes
    /\ \E labels \in PolLabelSets : \E user_email \in Emails :
       \E estimated_savings \in PolSavings :
         LET v == validate_action("stop", "vm1", labels, user_email, estimated_savings)
         IN  /\ polRes' = [labels |-> labels, user_email |-> user_email,
                           estimated_savings |-> estimated_savings, at |-> now,
                           before |-> action_history[user_email],
                           verdict |-> v, called |-> TRUE]
             /\ action_history' = [action_history EXCEPT ![user_email] = v.history]
    /\ UNCHANGED <<now, gcp_executor, cfgVars, watchVars, tokVars, req, executed>>

\* the caller records the action it was allowed to execute
PolRecord ==
    /\ polRes.called
    /\ polRes.verdict.is_safe
    /\ action_history' =
         [action_history EXCEPT ![polRes.user_email] = record_action(polRes.user_email)]
    /\ polRes' = NoPolRes
    /\ UNCHANGED <<now, gcp_executor, cfgVars, watchVars, tokVars, req, executed>>

\* the caller does not execute the action (blocked, already stopped, dry run,
\* or the stop call failed)
PolReturn ==
    /\ polRes.called
    /\ polRes' = NoPolRes
    /\ UNCHANGED <<now, gcp_executor, cfgVars, watchVars, tokVars, action_history, req, executed>>

PolNext == PolTick \/ PolValidate \/ PolRecord \/ PolReturn

SpecPolicy == PolInit /\ [][PolNext]_vars

-----------------------------------------------------------------------------
(* baseline_tracker.py: the anomaly detector.                              *)
(*                                                                         *)
(* Amounts of money are counted in half dollars, so that $10.00 is 20 and  *)
(* $14.50 is 29.  Mean, standard deviation and z-score are kept as exact   *)
(* ratios of integers (the values statistics.mean and statistics.stdev     *)
(* round to a float); the sensitivity threshold and the reported z_score   *)
(* are counted in hundredths, deviation_percent in tenths of a percent and *)
(* the reported baseline in cents.                                         *)

RECURSIVE Sum(_)
Sum(seq) == IF seq = <<>> THEN 0 ELSE seq[1] + Sum(Tail(seq))

\* the largest integer whose square is at most n
RECURSIVE ISqrt(_)
ISqrt(n) ==
    IF n < 2 THEN n
    ELSE LET s == 2 * ISqrt(n \div 4)
         IN  IF (s + 1) * (s + 1) <= n THEN s + 1 ELSE s

\* round(a / b) for b > 0: the nearest integer, a tie going to the even one
RoundDiv(a, b) ==
    LET q == a \div b
        r == a % b
    IN  IF 2 * r < b THEN q
        ELSE IF 2 * r > b THEN q + 1
        ELSE IF q % 2 = 0 THEN q ELSE q + 1

\* an amount in cents
Cents(amount) == 50 * amount

\* daily_spends[:7], line 80
recent_spends(daily_spends) ==
    SubSeq(daily_spends, 1, IF Len(daily_spends) < 7 THEN Len(daily_spends) ELSE 7)

\* n * n * (n - 1) times the sample variance of spends: the sum of the
\* squares of n * x - sum(spends); statistics.stdev is 0 exactly when it is 0
SumSquares(spends) ==
    LET n == Len(spends)
        S == Sum(spends)
        RECURSIVE SS(_)
        SS(k) == IF k = 0 THEN 0
                 ELSE (n * spends[k] - S) * (n * spends[k] - S) + SS(k - 1)
    IN  SS(n)

\* a z-score as its sign and its square num / den
Z(sgn, num, den) == [sgn |-> sgn, num |-> num, den |-> den]

\* the comparison of lines 110 and 116-120 as z >= t / 100
ZAtLeast(z, t) ==
    IF t > 0 THEN z.sgn > 0 /\ 10000 * z.num >= t * t * z.den
    ELSE z.sgn >= 0 \/ 10000 * z.num <= t * t * z.den

\* z > t / 100
ZGreater(z, t) ==
    IF t >= 0 THEN z.sgn > 0 /\ 10000 * z.num > t * t * z.den
    ELSE z.sgn >= 0 \/ 10000 * z.num < t * t * z.den

\* round(z, 2), in hundredths
ZRound(z) == z.sgn * ((ISqrt((40000 * z.num) \div z.den) + 1) \div 2)

\* the test of line 82 asking for two days of data
too_few_below_two(spends) == Len(spends) < 2

\* line 82: fewer than 3 days of data
too_few(spends) == Len(spends) < 3

\* lines 98-104 dividing by the standard deviation only: a zero deviation
\* gives no score
z_score_no_sentinel(spends, current_spend) ==
    LET n == Len(spends)
        d == n * current_spend - Sum(spends)
        ss == SumSquares(spends)
    IN  IF ss = 0 THEN Z(0, 0, 1)
        ELSE Z(IF d > 0 THEN 1 ELSE IF d < 0 THEN -1 ELSE 0, d * d * (n - 1), ss)

\* lines 94-104: the z-score of current_spend against spends, 5.0 or 0.0
\* when the standard deviation is 0
z_score(spends, current_spend) ==
    LET n == Len(spends)
        d == n * current_spend - Sum(spends)
        ss == SumSquares(spends)
    IN  IF ss = 0
        THEN IF d > 0 THEN Z(1, 25, 1) ELSE Z(0, 0, 1)
        ELSE Z(IF d > 0 THEN 1 ELSE IF d < 0 THEN -1 ELSE 0, d * d * (n - 1), ss)

\* line 113 taking the deviation as a fraction of the current spend
deviation_percent_of_current(spends, current_spend) ==
    LET n == Len(spends)
        S == Sum(spends)
    IN  IF current_spend > 0
        THEN RoundDiv(1000 * (n * current_spend - S), n * current_spend)
        ELSE 0

\* lines 113 and 131: round(deviation_percent, 1), in tenths of a percent
deviation_percent(spends, current_spend) ==
    LET n == Len(spends)
        S == Sum(spends)
    IN  IF S > 0 THEN RoundDiv(1000 * (n * current_spend - S), S) ELSE 0

\* lines 116-123: the severity ladder
severity_ladder(z) ==
    IF ZGreater(z, 300) THEN "critical"
    ELSE IF ZGreater(z, 250) THEN "high"
    ELSE IF ZGreater(z, 200) THEN "medium"
    ELSE "low"

\* _get_anomaly_message: the text and the percentage f"{:.0f}" prints
\* (0 where the text has none)
_get_anomaly_message(is_anomaly, spends, current_spend) ==
    LET n == Len(spends)
        S == Sum(spends)
        d == IF S > 0 THEN n * current_spend - S ELSE 0
        T == IF S > 0 THEN S ELSE 1
        above(p) == 100 * d > p * T
    IN  IF ~is_anomaly THEN [text |-> "Spending is within normal range", percent |-> 0]
        ELSE [text |-> IF above(200) THEN "% above normal - investigate immediately"
                       ELSE IF above(100) THEN "% above normal - significant anomaly"
                       ELSE IF above(50) THEN "% above normal - moderate anomaly"
                       ELSE "% above normal - minor anomaly",
              percent |-> RoundDiv(100 * d, T)]

\* the verdict of lines 67-74 and 84-91
insufficient(message) ==
    [is_anomaly |-> FALSE, severity |-> "unknown",
     message |-> [text |-> message, percent |-> 0],
     baseline |-> 0, deviation_percent |-> 0, z_score |-> 0]

\* BaselineTracker.detect_anomaly on self.state["daily_spend"], with
\* config.ANOMALY_SENSITIVITY as threshold
detect_anomaly(daily_spend, current_spend, threshold) ==
    IF daily_spend = <<>> THEN insufficient("Insufficient baseline data")
    ELSE LET spends == recent_spends(daily_spend)
             z == z_score(spends, current_spend)
             is_anomaly == ZGreater(z, threshold)
         IN  IF too_few(spends) THEN insufficient("Need at least 3 days of data")
             ELSE [is_anomaly |-> is_anomaly,
                   severity |-> IF is_anomaly THEN severity_ladder(z) ELSE "normal",
                   message |-> _get_anomaly_message(is_anomaly, spends, current_spend),
                   baseline |-> RoundDiv(Cents(Sum(spends)), Len(spends)),
                   current |-> Cents(current_spend),
                   deviation_percent |-> deviation_percent(spends, current_spend),
                   z_score |-> ZRound(z),
                   threshold |-> threshold]

-----------------------------------------------------------------------------
(* watcher.py, baseline_tracker.py and email_service.py: one check cycle   *)
(* of a watcher process (SpecWatch), and the baseline file as a second     *)
(* process finds it during that cycle (SpecStore)                          *)

MaxSamples == 8    \* a flat daily spend pattern has 0..MaxSamples days
MaxVaried == 3     \* a daily spend pattern of any amounts has 0..MaxVaried days

budget_threshold == 150    \* MONTHLY_BUDGET_LIMIT * ALERT_THRESHOLD: $75.00

Amounts == {18, 20, 22}               \* daily_spend of a day
Todays == {0, 20, 21, 25, 26, 29}     \* the sum of today_cost
Totals == {100, 200}                  \* get_current_month_total
Sensitivities == {-100, 0, 250, 500}  \* ANOMALY_SENSITIVITY

Flat(v, n) == [k \in 1..n |-> v]

\* what get_daily_spend_pattern may return, most recent day first
Baselines ==
    UNION {[1..n -> Amounts] : n \in 0..MaxVaried}
      \cup {Flat(v, n) : v \in Amounts, n \in 0..MaxSamples}
      \cup {Flat(v, 7) \o <<w>> : v \in Amounts, w \in Amounts}

\* what get_top_cost_contributors may return
TopContributorLists == {<<>>, <<[service_name |-> "Compute Engine"]>>}

\* baseline_state.json when the watcher starts
InitialFiles == {NoFile, [exists |-> TRUE, whole |-> TRUE, daily_spend |-> Flat(20, 3)]}

ALERT_EMAIL == "ops@example.com"
GCP_PROJECT_ID == "proj"
API_BASE_URL == "http://localhost:8080"

\* BaselineTracker._load_state: the daily_spend of the state it returns.  A
\* file that json.load cannot parse gives the empty state, as no file does.
_load_state(file) ==
    IF file.exists /\ file.whole THEN file.daily_spend ELSE <<>>

\* the file after open(state_file, 'w')
truncated == [exists |-> TRUE, whole |-> FALSE, daily_spend |-> <<>>]

\* run_check, lines 127-130: an exception ends the cycle
check_error(ck, error) == [ck EXCEPT !.status = "error", !.error = error, !.pc = "done"]

\* _save_state letting the exception of a failed write go to run_check
after_save_raises(ck, written) ==
    IF written
    THEN [ck EXCEPT !.saved = "saved", !.pc = "detect_anomaly",
                    !.log = Append(@, "update_baseline")]
    ELSE check_error([ck EXCEPT !.saved = "failed"], "save")

\* the return of _save_state and update_baseline (lines 41-43, 54): a failed
\* write is logged
after_save(ck, written) ==
    [ck EXCEPT !.saved = IF written THEN "saved" ELSE "failed",
               !.pc = "detect_anomaly",
               !.log = Append(@, "update_baseline")]

\* generate_action_url issuing every token for the action stop
generate_action_url_one_action(base_url, resource_id, action, project_id, estimated_savings, user_email) ==
    [base_url |-> base_url, path |-> <<"/api/v1/execute/", action>>,
     token |-> generate_token(resource_id, "stop", project_id, "instance",
                              estimated_savings, user_email)]

\* JWTHandler.generate_action_url with the keyword arguments that
\* generate_action_urls passes: the URL as its base, its path and the token
\* of its query string
generate_action_url(base_url, resource_id, action, project_id, estimated_savings, user_email) ==
    [base_url |-> base_url, path |-> <<"/api/v1/execute/", action>>,
     token |-> generate_token(resource_id, action, project_id, "instance",
                              estimated_savings, user_email)]

\* actions of generate_action_urls, line 71
actions == <<"stop", "snapshot", "ignore">>

\* _send_alert_email, lines 151-154: the resource of the alert
alert_resource_id(top_contributors) ==
    IF top_contributors = <<>> THEN "unknown"
    ELSE Get(top_contributors[1], "sku", Get(top_contributors[1], "service", "unknown"))

\* send_cost_alert, lines 245 and 249
alert_savings(anomaly_info) ==
    LET estimated_savings == Get(anomaly_info, "current", 0) - Get(anomaly_info, "baseline", 0)
    IN  IF estimated_savings > 0 THEN estimated_savings ELSE 0

WatchInit ==
    /\ now = 0
    /\ expiry_hours = MaxExpiryHours
    /\ issued = {}
    /\ tokRes = NoResult
    /\ expiredSeen = {}
    /\ dry_run = FALSE
    /\ blocklist_tags = DefaultTags
    /\ polRes = NoPolRes
    /\ OrchIdle
    /\ anomaly_sensitivity \in Sensitivities
    /\ state_file \in InitialFiles
    /\ state = _load_state(state_file)
    /\ loaded = NoLoad
    /\ check = [NoCheck EXCEPT !.before = _load_state(state_file)]
    /\ mail = <<>>

\* run_check, lines 68-75: the three billing queries
run_check ==
    /\ check.pc = "run_check"
    /\ \/ check' = check_error(check, "billing")
       \/ \E total \in Totals : \E top \in TopContributorLists : \E pattern \in Baselines :
            check' = [check EXCEPT !.current_total = total,
                                   !.top_contributors = top,
                                   !.daily_pattern = pattern,
                                   !.pc = "update_baseline",
                                   !.log = Append(@, "query")]
    /\ UNCHANGED <<now, gcp_executor, cfgVars, tokVars, action_history, req, executed, polRes,
                   anomaly_sensitivity, state, state_file, loaded, mail>>

\* update_baseline, lines 51-53, up to the open of _save_state (line 39)
update_baseline ==
    /\ check.pc = "update_baseline"
    /\ state' = check.daily_pattern
    /\ \/ /\ state_file' = truncated
          /\ check' = [check EXCEPT !.pc = "_save_state"]
       \/ /\ UNCHANGED state_file
          /\ check' = after_save(check, FALSE)
    /\ UNCHANGED <<now, gcp_executor, cfgVars, tokVars, action_history, req, executed, polRes,
                   anomaly_sensitivity, loaded, mail>>

\* _save_state, lines 40-43: json.dump writes the file, or fails on the way
_save_state ==
    /\ check.pc = "_save_state"
    /\ \E written \in BOOLEAN :
         /\ state_file' = IF written
                          THEN [exists |-> TRUE, whole |-> TRUE, daily_spend |-> state]
                          ELSE state_file
         /\ check' = after_save(check, written)
    /\ UNCHANGED <<now, gcp_executor, cfgVars, tokVars, action_history, req, executed, polRes,
                   anomaly_sensitivity, state, loaded, mail>>

\* the test of line 105 alerting also when the budget threshold is exceeded
alert_wanted_or_budget(ck, anomaly_result) ==
    anomaly_result.is_anomaly \/ ck.budget_exceeded

\* run_check, line 105: the alert is sent for an anomalous verdict
alert_wanted(ck, anomaly_result) == anomaly_result.is_anomaly

\* run_check, lines 85-121: the budget threshold, today's spend and the
\* detection
run_detection ==
    /\ check.pc = "detect_anomaly"
    /\ LET ck == [check EXCEPT !.budget_exceeded = check.current_total > budget_threshold]
       IN  \/ check' = check_error(ck, "billing")
           \/ \E today_spend \in Todays :
                LET anomaly_result == detect_anomaly(state, today_spend, anomaly_sensitivity)
                IN  check' = [ck EXCEPT
                        !.today_spend = today_spend,
                        !.detected = TRUE,
                        !.anomaly = anomaly_result,
                        !.anomaly_detected = alert_wanted(ck, anomaly_result),
                        !.pc = IF alert_wanted(ck, anomaly_result)
                               THEN "_send_alert_email" ELSE "done",
                        !.log = Append(@, "detect_anomaly")]
    /\ UNCHANGED <<now, gcp_executor, cfgVars, tokVars, action_history, req, executed, polRes,
                   anomaly_sensitivity, state, state_file, loaded, mail>>

\* _send_alert_email without its try/except: what it raises reaches the
\* except clause of run_check
_send_alert_email_unguarded ==
    /\ check.pc = "_send_alert_email"
    /\ \E outcome \in {"raises", "no client", "client"} :
         check' = IF outcome = "raises"
                  THEN check_error([check EXCEPT !.alerted = TRUE,
                                                 !.log = Append(@, "_send_alert_email")],
                                   "notifier")
                  ELSE [check EXCEPT
                          !.alerted = TRUE,
                          !.resource_id = alert_resource_id(check.top_contributors),
                          !.pc = IF outcome = "client" THEN "generate_action_urls"
                                 ELSE "done",
                          !.log = Append(@, "_send_alert_email")]
    /\ UNCHANGED <<now, gcp_executor, cfgVars, tokVars, action_history, req, executed, polRes,
                   anomaly_sensitivity, state, state_file, loaded, mail>>

\* _send_alert_email, lines 147-165, and send_cost_alert, lines 240-242: the
\* import of email_service may raise and the SendGrid client may be missing
_send_alert_email ==
    /\ check.pc = "_send_alert_email"
    /\ \E outcome \in {"raises", "no client", "client"} :
         check' = [check EXCEPT
                     !.alerted = TRUE,
                     !.resource_id = IF outcome = "raises" THEN ""
                                     ELSE alert_resource_id(check.top_contributors),
                     !.pc = IF outcome = "client" THEN "generate_action_urls" ELSE "done",
                     !.log = Append(@, "_send_alert_email")]
    /\ UNCHANGED <<now, gcp_executor, cfgVars, tokVars, action_history, req, executed, polRes,
                   anomaly_sensitivity, state, state_file, loaded, mail>>

\* one turn of the loop of generate_action_urls, lines 74-82
generate_action_urls ==
    /\ check.pc = "generate_action_urls"
    /\ LET action == actions[Len(check.urls) + 1]
           estimated_savings == alert_savings(check.anomaly)
           url == generate_action_url(API_BASE_URL, check.resource_id, action,
                                      GCP_PROJECT_ID, estimated_savings, ALERT_EMAIL)
       IN  /\ issued' = issued \cup
                 {[args |-> [resource_id |-> check.resource_id, action |-> action,
                             project_id |-> GCP_PROJECT_ID, resource_type |-> "instance",
                             estimated_savings |-> estimated_savings,
                             user_email |-> ALERT_EMAIL],
                   at |-> now,
                   token |-> url.token]}
           /\ check' = [check EXCEPT
                          !.urls = Append(@, url),
                          !.pc = IF Len(check.urls) + 1 = Len(actions) THEN "send"
                                 ELSE "generate_action_urls"]
    /\ UNCHANGED <<now, gcp_executor, cfgVars, tokRes, expiredSeen, action_history, req,
                   executed, polRes, anomaly_sensitivity, state, state_file, loaded, mail>>

\* send_cost_alert, lines 254-285: render the e-mail and hand it to SendGrid
send_cost_alert ==
    /\ check.pc = "send"
    /\ \E outcome \in {"render raises", "sent", "refused", "send raises"} :
         /\ mail' = IF outcome = "render raises" THEN mail
                    ELSE Append(mail, [to |-> ALERT_EMAIL,
                                       severity |-> check.anomaly.severity,
                                       action_urls |-> check.urls,
                                       delivered |-> outcome = "sent"])
         /\ check' = [check EXCEPT !.pc = "done"]
    /\ UNCHANGED <<now, gcp_executor, cfgVars, tokVars, action_history, req, executed, polRes,
                   anomaly_sensitivity, state, state_file, loaded>>

\* BaselineTracker() in a second process: _load_state reads the file as it
\* is at that moment
load_in_second_process ==
    /\ ~loaded.called
    /\ loaded' = [called |-> TRUE, file |-> state_file, daily_spend |-> _load_state(state_file)]
    /\ UNCHANGED <<now, gcp_executor, cfgVars, tokVars, action_history, req, executed, polRes,
                   anomaly_sensitivity, state, state_file, check, mail>>

WatchNext ==
    \/ run_check
    \/ update_baseline
    \/ _save_state
    \/ run_detection
    \/ _send_alert_email
    \/ generate_action_urls
    \/ send_cost_alert

SpecWatch == WatchInit /\ [][WatchNext]_vars

\* the baseline store on its own: the watcher replaces and saves the
\* baseline while a second process loads the file
StoreNext ==
    \/ run_check
    \/ update_baseline
    \/ _save_state
    \/ load_in_second_process

SpecStore == WatchInit /\ [][StoreNext]_vars

----------------------------------------------------------------------------
(* Properties of the action entry point (checked under Spec)               *)

\* request r left the queue in this step: the event loop started its handler
Began(r) == req[r].pc = "queued" /\ r \in DOMAIN req' /\ req'[r].pc # "queued"

\* the external calls that change a cloud resource
Mutations == {"snapshots.insert", "instances.stop"}

\* token tk carries the server's signature over its own payload
Genuine(tk) == tk.wellformed /\ tk.sig = Sign(secret, tk.payload)

\* C1: the executor entry that a request dispatches (stop_instance for
\* "stop", snapshot_and_stop for "snapshot") is the one named by the action
\* field of the grant that was validated for it.
C1_DispatchIsGrantAction ==
    \A r \in ReqIds : req[r].via # "" => req[r].via = req[r].grant.action

\* C1 (the case at hand): a token issued for "ignore" has reached the
\* external stop call.
C1_IgnoreTokenStops ==
    \E r \in ReqIds : /\ req[r].via = "stop"
                      /\ req[r].grant.action = "ignore"
                      /\ "instances.stop" \in {req[r].log[k] : k \in DOMAIN req[r].log}

\* C2: in every request, each external mutation call (snapshots.insert,
\* instances.stop) comes after the policy engine has returned allowed = true
\* for that request, and a request the policy engine blocks makes no
\* external mutation call at all.
C2_NoMutationBeforePolicyAllows ==
    \A r \in ReqIds :
        LET log == req[r].log
        IN  /\ \A k \in DOMAIN log :
                 log[k] \in Mutations => \E j \in 1..(k - 1) : log[j] = "policy:allowed"
            /\ (\E j \in DOMAIN log : log[j] = "policy:blocked")
                 => \A k \in DOMAIN log : log[k] \notin Mutations

\* C3: a request whose token fails validation ends in the step that starts
\* it, with status 401, without a status query, a policy check or an
\* external call, and with _action_history untouched; once rejected it takes
\* no further step but the delivery of its response.
C3_RejectedTokenIsTerminal ==
    [][\A r \in ReqIds :
         /\ (Began(r) /\ validate_token(req'[r].token).kind # "grant")
              => /\ req'[r].pc = "done"
                 /\ req'[r].status = 401
                 /\ req'[r].log = <<>>
                 /\ ~req'[r].checked
                 /\ action_history' = action_history
                 /\ executed' = executed
         /\ req[r].status = 401
              => /\ action_history' = action_history
                 /\ \/ r \notin DOMAIN req'
                    \/ req'[r] = req[r]
                    \/ req'[r].pc = "queued"]_vars

C3_Witness ==
    \E r \in ReqIds : /\ req[r].status = 401
                      /\ req[r].title = "Token Expired"
                      /\ \E e \in Emails : action_history[e] # <<>>

\* C4: a request that presents an issued token's signature over a payload
\* that differs from the issued payload is answered Invalid (401): it gets
\* no grant, no status query, no policy check and no external call.
C4_TamperedPayloadIsInvalid ==
    \A r \in ReqIds : \A i \in issued :
        (/\ req[r].pc # "queued"
         /\ req[r].token.sig = i.token.sig
         /\ req[r].token.payload # i.token.payload)
        => /\ req[r].status = 401
           /\ req[r].title = "Invalid Token"
           /\ req[r].grant = NoPayload
           /\ req[r].log = <<>>
           /\ ~req[r].checked

\* a tampered token (action changed to "stop", expiry moved on) presented
\* before the issued token expires
C4_Witness ==
    \E r \in ReqIds : \E i \in issued :
        /\ req[r].pc = "done"
        /\ req[r].action = "stop"
        /\ req[r].token.wellformed
        /\ req[r].token.sig = i.token.sig
        /\ req[r].token.payload.action # i.token.payload.action
        /\ validate_token(i.token).kind = "grant"


\* C6: validation ends in exactly one of grant, Expired and Invalid.  At
\* the entry point a token with the server's signature that is past its
\* expiry is answered Expired and never Invalid; a token that is malformed
\* or whose signature does not match is answered Invalid and never Expired,
\* also when its expiry time has passed; a grant is answered with neither;
\* and the two failures are answered with different titles and messages.
C6_ThreeOutcomes ==
    [][\A r \in ReqIds : Began(r) =>
         LET tk == req'[r].token
             v == validate_token(tk)
             past == tk.payload.exp * TicksPerSec <= now
             expired_page == /\ req'[r].status = 401
                             /\ req'[r].title = "Token Expired"
                             /\ req'[r].message = <<"This action link has expired. Please wait for the next alert email.">>
             invalid_page == /\ req'[r].status = 401
                             /\ req'[r].title = "Invalid Token"
                             /\ req'[r].message = <<"This action link is invalid. Please use the link from your alert email.">>
         IN  /\ v.kind \in {"grant", "Expired", "Invalid"}
             /\ (Genuine(tk) /\ past) => (v.kind = "Expired" /\ expired_page /\ ~invalid_page)
             /\ ~Genuine(tk) => (v.kind = "Invalid" /\ invalid_page /\ ~expired_page)
             /\ (Genuine(tk) /\ ~past) => (/\ v.kind = "grant"
                                           /\ req'[r].grant = tk.payload
                                           /\ ~expired_page
                                           /\ ~invalid_page)]_vars

\* a token signed with another key, presented after its expiry time, has
\* been answered Invalid
C6_Witness ==
    \E r \in ReqIds : /\ req[r].title = "Invalid Token"
                      /\ req[r].token.wellformed
                      /\ ~Genuine(req[r].token)
                      /\ req[r].token.payload.exp * TicksPerSec <= now

----------------------------------------------------------------------------
(* Properties of the token service (checked under SpecToken)               *)

\* the six fields of a payload that the caller of generate_token passed
GrantFields(p) ==
    [resource_id |-> p.resource_id, action |-> p.action, project_id |-> p.project_id,
     resource_type |-> p.resource_type, estimated_savings |-> p.estimated_savings,
     user_email |-> p.user_email]

\* the end of the issued token's life in ticks: now + expiry_hours, in
\* whole seconds
expires_at(i) == Secs(i.at + expiry_hours * Hour) * TicksPerSec

\* C5 (as stated): a token issued at t expires at exactly t + TTL, validates
\* at every now < t + TTL, fails with Expired at every later time, and is
\* never accepted after it has been reported Expired.
C5_Original ==
    \A i \in issued :
        /\ i.token.payload.exp * TicksPerSec = i.at + expiry_hours * Hour
        /\ tokRes.token = i.token =>
             /\ tokRes.at < i.at + expiry_hours * Hour => tokRes.kind = "grant"
             /\ tokRes.at >= i.at + expiry_hours * Hour => tokRes.kind = "Expired"
        /\ tokRes.kind = "grant" => tokRes.token \notin expiredSeen

\* C5 (amended): a token issued at t expires at t + TTL rounded down to a
\* whole second, validates at every now before that instant, fails with
\* Expired at that instant and at every later time (so TTL = 0 evaluated at
\* t + 1s fails with Expired), and is never accepted after it has been
\* reported Expired.
C5_ExpiryInWholeSeconds ==
    \A i \in issued :
        /\ i.token.payload.exp = Secs(i.at + expiry_hours * Hour)
        /\ expires_at(i) <= i.at + expiry_hours * Hour
        /\ expires_at(i) > i.at + expiry_hours * Hour - TicksPerSec
        /\ tokRes.token = i.token =>
             /\ tokRes.at < expires_at(i) => tokRes.kind = "grant"
             /\ tokRes.at >= expires_at(i) => tokRes.kind = "Expired"
             /\ (expiry_hours = 0 /\ tokRes.at >= i.at + TicksPerSec)
                  => tokRes.kind = "Expired"
        /\ tokRes.kind = "grant" => tokRes.token \notin expiredSeen

\* a token issued within a second has been reported Expired before t + TTL
C5_Witness ==
    \E i \in issued : /\ tokRes.token = i.token
                      /\ tokRes.kind = "Expired"
                      /\ expiry_hours > 0
                      /\ tokRes.at < i.at + expiry_hours * Hour

\* C7: validating an issued token before its expiry returns a grant whose
\* resource_id, action, project_id, resource_type, estimated_savings and
\* user_email are the values that were passed to generate_token.
C7_RoundTrip ==
    \A i \in issued :
        tokRes.token = i.token =>
            /\ tokRes.at < expires_at(i) => tokRes.kind = "grant"
            /\ tokRes.kind = "grant" => GrantFields(tokRes.payload) = i.args

\* a token for a disk, with savings and without a user, has been validated
\* some time after it was issued
C7_Witness ==
    \E i \in issued : /\ tokRes.token = i.token
                      /\ tokRes.kind = "grant"
                      /\ tokRes.at > i.at
                      /\ i.args.resource_type = "disk"
                      /\ i.args.user_email = None
                      /\ i.args.estimated_savings = 150

----------------------------------------------------------------------------
(* Properties of the rate limit under concurrent requests (checked under   *)
(* Spec)                                                                   *)

\* the entries of a sequence of times that lie in the hour ending at t
InWindow(times, t) == {k \in DOMAIN times : times[k] > t - Hour /\ times[k] <= t}

\* the requests of actor e that have passed the safety checks and have not
\* yet returned from the external stop call
Admitted(e) == {r \in ReqIds : req[r].pc = "instances.stop" /\ req[r].user_email = e}

\* C9: whatever the order in which the requests of one actor are served, the
\* stops executed for that actor within any one-hour window never exceed
\* max_actions_per_hour, and the requests admitted by the rate-limit check
\* never exceed the slots that remained: two requests never both pass the
\* check when one slot remains.
C9_WindowNeverExceedsLimit ==
    \A e \in Emails :
        /\ \A t \in 0..now :
             Cardinality(InWindow(executed[e], t)) <= MaxActionsPerHour
        /\ Cardinality(InWindow(action_history[e], now)) + Cardinality(Admitted(e))
             <= MaxActionsPerHour

\* a request has taken the last slot while another request waits
C9_Witness ==
    \E r, q \in ReqIds :
        /\ r # q
        /\ req[r].pc = "instances.stop"
        /\ req[q].pc = "queued"
        /\ Cardinality(InWindow(action_history[req[r].user_email], now))
             = MaxActionsPerHour - 1

----------------------------------------------------------------------------
(* Properties of the policy engine (checked under SpecPolicy)              *)

\* the number of the actor's recorded actions within the hour before the call
RecordedInWindow == Cardinality(InWindow(polRes.before, polRes.at))

\* the resource of the call carries a blocklisted label
Blocklisted == check_blocklist(polRes.labels).blocked

\* the names of the checks that verdict v lists as failed
FailedChecks(v) == {v.checks_failed[k][1] : k \in DOMAIN v.checks_failed}

\* the reason that reports count/limit
RateLimitReason(count) ==
    <<"Rate limit exceeded: ", Str(count), "/", Str(MaxActionsPerHour),
      " actions in the last hour">>

\* C8 (as stated): once N actions are recorded for the actor within the
\* trailing hour, validate_action returns allowed = false with the reason
\* that reports count/limit; once more than an hour has passed since the
\* earliest recorded action, it returns allowed = true.
C8_Original ==
    polRes.called =>
        /\ RecordedInWindow >= MaxActionsPerHour
             => /\ ~polRes.verdict.is_safe
                /\ polRes.verdict.reason = RateLimitReason(RecordedInWindow)
        /\ (polRes.before # <<>> /\ polRes.at > polRes.before[1] + Hour)
             => polRes.verdict.is_safe

\* C8 (amended): once N actions are recorded for the actor within the
\* trailing hour, validate_action returns allowed = false, and for a
\* resource that passes the blocklist check the reason reports count/limit;
\* once more than an hour has passed since the earliest recorded action,
\* validate_action returns allowed = true for every resource that passes
\* the blocklist check.
C8_RateLimit ==
    polRes.called =>
        /\ RecordedInWindow >= MaxActionsPerHour
             => /\ ~polRes.verdict.is_safe
                /\ ~Blocklisted
                     => /\ polRes.verdict.reason = RateLimitReason(RecordedInWindow)
                        /\ polRes.verdict.checks_failed =
                              << <<"rate_limit", RateLimitReason(RecordedInWindow)>> >>
        /\ (polRes.before # <<>> /\ polRes.at > polRes.before[1] + Hour /\ ~Blocklisted)
             => polRes.verdict.is_safe
        /\ (RecordedInWindow < MaxActionsPerHour /\ ~Blocklisted)
             => polRes.verdict.is_safe

\* the actor was at the limit, and is allowed again more than an hour after
\* the earliest recorded action
C8_Witness ==
    /\ polRes.called
    /\ Len(polRes.before) = MaxActionsPerHour
    /\ polRes.at > polRes.before[1] + Hour
    /\ polRes.verdict.is_safe

\* C10: a resource with a label keyed env or environment whose value is
\* production or prod, in any letter case, is blocked for action "stop"
\* under every blocklist tag list and whatever other labels it carries.
C10_ProductionLabelBlocks ==
    polRes.called =>
        ((\E k \in {"env", "environment"} \cap DOMAIN polRes.labels :
             Lower(polRes.labels[k]) \in {"production", "prod"})
         => ~polRes.verdict.is_safe)

----------------------------------------------------------------------------
(* Properties of snapshot_and_stop and stop_instance (checked under Spec)  *)

\* the entries of a sequence, as a set
Range(seq) == {seq[k] : k \in DOMAIN seq}

\* the number of entries of log that equal call
Count(log, call) == Cardinality({k \in DOMAIN log : log[k] = call})

\* request r has returned its response
Done(r) == req[r].pc = "done"

\* C11: a snapshot request attempts the snapshots one at a time in the
\* order of the instance's disks; when the snapshot of disk k fails no later
\* disk is attempted, no stop call is made (stop_instance is not entered),
\* and the request ends Failed (400) with a message naming disk k.
C11_AbortOnFirstSnapshotFailure ==
    \A r \in ReqIds :
        LET snaps == req[r].snapshots
        IN  /\ Len(snaps) <= req[r].ndisks
            /\ \A k \in DOMAIN snaps :
                 /\ snaps[k].disk = DiskNames[k]
                 /\ ~snaps[k].success
                      => /\ k = Len(snaps)
                         /\ Done(r)
                         /\ req[r].status = 400
                         /\ req[r].title = "Action Failed"
                         /\ req[r].message[1] = "Failed to snapshot disk "
                         /\ req[r].message[2] = DiskNames[k]
                         /\ "instances.stop" \notin Range(req[r].log)
                         /\ Count(req[r].log, "instances.get") = 1
                         /\ ~req[r].checked
                         /\ Count(req[r].log, "disks.get") = k
            /\ req[r].pc = "stop_instance" /\ req[r].via = "snapshot"
                 => /\ Len(snaps) = req[r].ndisks
                    /\ \A k \in DOMAIN snaps : snaps[k].success

\* disk 2 of 2 has failed after disk 1 succeeded
C11_Witness ==
    \E r \in ReqIds : /\ Done(r)
                      /\ req[r].ndisks = 2
                      /\ Len(req[r].snapshots) = 2
                      /\ req[r].snapshots[1].success
                      /\ ~req[r].snapshots[2].success
                      /\ req[r].message[2] = "disk2"

\* the stop phase of request r has been entered: stop_instance was called
StopPhaseEntered(r) ==
    IF req[r].via = "snapshot" THEN Count(req[r].log, "instances.get") = 2
    ELSE Count(req[r].log, "instances.get") = 1

\* C12: a snapshot request that ends Failed says where it failed.  A failed
\* disk snapshot is reported as "Failed to snapshot disk ..." and the stop
\* phase was never entered; a failure of the stop phase is reported as
\* "Snapshots created but failed to stop: ..." and only when a snapshot of
\* every disk succeeded; the reports differ, and the stop phase is never
\* entered after a snapshot failure.  (A failure to find the instance, before
\* either phase, is reported as "Instance not found: ...".)  Failed is the
\* result (False, message) of snapshot_and_stop, which the caller gets as 400.
C12_FailedPhaseIsReported ==
    \A r \in ReqIds :
        LET snaps == req[r].snapshots
            snapshot_failed == \E k \in DOMAIN snaps : ~snaps[k].success
            all_snapshots_ok == /\ Len(snaps) = req[r].ndisks
                                /\ \A k \in DOMAIN snaps : snaps[k].success
        IN  /\ (snapshot_failed /\ StopPhaseEntered(r)) => req[r].via # "snapshot"
            /\ (req[r].via = "snapshot" /\ Done(r) /\ req[r].status = 400) =>
                 /\ req[r].title = "Action Failed"
                 /\ req[r].message[1] \in {"Instance not found: ",
                                           "Failed to snapshot disk ",
                                           "Snapshots created but failed to stop: "}
                 /\ req[r].message[1] = "Failed to snapshot disk "
                      <=> snapshot_failed
                 /\ req[r].message[1] = "Snapshots created but failed to stop: "
                      <=> StopPhaseEntered(r)
                 /\ StopPhaseEntered(r) => all_snapshots_ok
                 /\ req[r].message[1] = "Instance not found: "
                      => (snaps = <<>> /\ req[r].log = <<"instances.get">>)
                 /\ snapshot_failed
                      => (~req[r].checked /\ "instances.stop" \notin Range(req[r].log))

\* the external stop call has failed after the snapshots of two disks
C12_Witness ==
    \E r \in ReqIds : /\ Done(r)
                      /\ req[r].via = "snapshot"
                      /\ req[r].status = 400
                      /\ Len(req[r].snapshots) = 2
                      /\ req[r].log[Len(req[r].log)] = "instances.stop"
                      /\ req[r].message[1] = "Snapshots created but failed to stop: "

\* C13: a stop request with a valid token on an instance whose status is
\* TERMINATED queries the instance before anything else and ends Succeeded
\* (200) without the external stop call.
C13_StopOfStoppedSucceeds ==
    \A r \in ReqIds :
        (req[r].via = "stop" /\ Done(r) /\ req[r].status_seen = "TERMINATED")
        => /\ req[r].log[1] = "instances.get"
           /\ "instances.stop" \notin Range(req[r].log)
           /\ req[r].status = 200

\* C13 (the case at hand): a stop request on a stopped instance has ended
\* Failed with the reason of the rate limit.
C13_StoppedButRateLimited ==
    \E r \in ReqIds : /\ req[r].via = "stop"
                      /\ Done(r)
                      /\ req[r].status_seen = "TERMINATED"
                      /\ req[r].status = 400
                      /\ FailedChecks(req[r].verdict) = {"rate_limit"}

\* C14: in dry-run mode no request makes an external mutation call
\* (snapshots.insert, instances.stop), nor reads a disk for a snapshot, and
\* the step in which the policy engine allows a request ends it Succeeded.
C14_DryRunMakesNoMutation ==
    /\ [](dry_run => \A r \in ReqIds :
                        Range(req[r].log) \cap (Mutations \cup {"disks.get"}) = {})
    /\ [][dry_run => \A r \in ReqIds :
            (/\ r \in DOMAIN req'
             /\ ~req[r].checked
             /\ req'[r].checked
             /\ req'[r].verdict.is_safe)
            => (/\ req'[r].pc = "done"
                /\ req'[r].status = 200
                /\ req'[r].title = "Action Completed")]_vars

\* in dry-run mode a snapshot request for a running instance with two disks
\* has ended Succeeded
C14_Witness ==
    \E r \in ReqIds : /\ dry_run
                      /\ Done(r)
                      /\ req[r].via = "snapshot"
                      /\ Len(req[r].snapshots) = 2
                      /\ req[r].status_seen = "RUNNING"
                      /\ req[r].status = 200

\* C15: in dry-run mode a stop or snapshot request that ends Succeeded for
\* an instance that was running returns a message tagged as simulated.
C15_DryRunSuccessIsTagged ==
    dry_run => \A r \in ReqIds :
        (/\ Done(r)
         /\ req[r].via \in {"stop", "snapshot"}
         /\ req[r].status = 200
         /\ req[r].status_seen = "RUNNING")
        => req[r].message[1] = "DRY RUN: Would stop instance "

StopSucceeds(r) ==
    /\ req[r].pc = "instances.stop"
    /\ r \in DOMAIN req'
    /\ req'[r].pc = "done"
    /\ req'[r].status = 200

\* C17: with dry-run off, a step appends a timestamp to an actor's entries
\* in _action_history if and only if it is the return of a request's
\* external stop call with success, and then it appends exactly one
\* timestamp (the time of the return) to the entries of the grant's
\* user_email; every other step leaves the entries alone or cleans them.  A
\* request records once if its stop call succeeded, also after several disk
\* snapshots, and never if it ends Failed.
C17_RecordIffStopSucceeded ==
    /\ [][~dry_run => \A e \in Emails :
            /\ \/ action_history'[e] = action_history[e]
               \/ action_history'[e] = recent_entries(action_history[e], now)
               \/ action_history'[e] = Append(action_history[e], now)
            /\ action_history'[e] = Append(action_history[e], now)
                 <=> \E r \in ReqIds : StopSucceeds(r) /\ req[r].grant.user_email = e]_vars
    /\ [](~dry_run => \A r \in ReqIds :
            /\ Count(req[r].log, "record_action") <= 1
            /\ Done(r) =>
                 /\ Count(req[r].log, "record_action") = 1
                      <=> ("instances.stop" \in Range(req[r].log) /\ req[r].status = 200)
                 /\ req[r].status # 200 => Count(req[r].log, "record_action") = 0)

\* a snapshot request with two disks has stopped the instance and recorded
\* one action
C17_Witness ==
    \E r \in ReqIds : /\ ~dry_run
                      /\ Done(r)
                      /\ req[r].status = 200
                      /\ Len(req[r].snapshots) = 2
                      /\ Count(req[r].log, "record_action") = 1
                      /\ action_history[req[r].grant.user_email] = <<now>>

\* C18: an ignore request with a valid token ends in the step that starts
\* it, with status 200 and the page "Alert Dismissed", without a status
\* query, a policy check or an external call, and with _action_history
\* untouched, whatever the actor's entries are.
C18_IgnoreIsPureDismissal ==
    [][\A r \in ReqIds :
         (/\ Began(r)
          /\ req'[r].action = "ignore"
          /\ validate_token(req'[r].token).kind = "grant")
         => /\ req'[r].pc = "done"
            /\ req'[r].status = 200
            /\ req'[r].title = "Alert Dismissed"
            /\ req'[r].log = <<>>
            /\ ~req'[r].checked
            /\ req'[r].via = ""
            /\ action_history' = action_history
            /\ executed' = executed]_vars

\* an ignore request of an actor who is at the rate limit has been
\* dismissed with 200
C18_Witness ==
    \E r \in ReqIds :
        /\ Done(r)
        /\ req[r].action = "ignore"
        /\ req[r].status = 200
        /\ Cardinality(InWindow(action_history[req[r].user_email], now))
             = MaxActionsPerHour

\* C19: whenever the policy engine blocks a stop or a snapshot request, the
\* request ends Failed (400) and the message returned to the caller is
\* exactly the policy engine's reason.
C19_BlockReasonVerbatim ==
    \A r \in ReqIds :
        (req[r].checked /\ ~req[r].verdict.is_safe)
        => /\ Done(r)
           /\ req[r].status = 400
           /\ req[r].title = "Action Failed"
           /\ req[r].message = req[r].verdict.reason

\* C19 (the case at hand): a blocked snapshot request has been answered with
\* a message that is not the policy engine's reason.
C19_BlockedSnapshotIsReworded ==
    \E r \in ReqIds : /\ Done(r)
                      /\ req[r].via = "snapshot"
                      /\ req[r].checked
                      /\ ~req[r].verdict.is_safe
                      /\ req[r].message[1] = "Snapshots created but failed to stop: "
                      /\ req[r].message # req[r].verdict.reason

\* the token of request r is rejected by validate_token in this step
TokenRejected(r) == validate_token(req'[r].token).kind # "grant"

\* C20: a request for stop, snapshot or ignore ends with exactly one status
\* code out of 200, 400 and 401: 401 if and only if its token was expired
\* or invalid when it was validated, 400 if and only if the token was valid
\* and the action was blocked by the policy engine or failed in execution,
\* 200 if and only if the action ended Succeeded.
C20_StatusCodes ==
    /\ [](\A r \in ReqIds :
            /\ Done(r) <=> req[r].status # 0
            /\ Done(r) =>
                 /\ req[r].status \in {200, 400, 401}
                 /\ req[r].status = 401 <=> req[r].grant = NoPayload
                 /\ req[r].status = 401 <=> req[r].title \in {"Token Expired", "Invalid Token"}
                 /\ req[r].status = 400 <=> req[r].title = "Action Failed"
                 /\ req[r].status = 200 <=> req[r].title \in {"Action Completed", "Alert Dismissed"}
                 /\ req[r].status = 400 <=>
                      \/ req[r].checked /\ ~req[r].verdict.is_safe
                      \/ req[r].status_seen = "not found"
                      \/ req[r].via = "snapshot" /\ req[r].log = <<"instances.get">>
                      \/ \E k \in DOMAIN req[r].snapshots : ~req[r].snapshots[k].success
                      \/ /\ req[r].log # <<>>
                         /\ req[r].log[Len(req[r].log)] = "instances.stop")
    /\ [][\A r \in ReqIds : Began(r) =>
            (req'[r].status = 401 <=> TokenRejected(r))]_vars

\* C20 (the case at hand): a stop or snapshot request with a valid token has
\* been answered 500.
C20_ServerError ==
    \E r \in ReqIds : /\ Done(r)
                      /\ req[r].status = 500
                      /\ req[r].grant # NoPayload
                      /\ req[r].via \in {"stop", "snapshot"}
                      /\ req[r].log = <<>>
-----------------------------------------------------------------------------
(* Replay of a token *)

\* the issued token has been presented before: an action carried out under
\* it is on record, or another request that carried it has been handled
UsedBefore(r, tk) ==
    \/ \E e \in DOMAIN executed : executed[e] # <<>>
    \/ \E q \in ReqIds \ {r} : req[q].token = tk /\ req[q].pc # "queued"

\* C21: a token is not consumed by use.  A request that presents the issued
\* token after earlier requests used it, whether they succeeded or failed,
\* is validated again if and only if the time is before the token's expiry,
\* and then it is dispatched exactly as a first request with that action is.
C21_TokenIsNeverConsumed ==
    [][\A r \in ReqIds : \A i \in issued :
         (Began(r) /\ req'[r].token = i.token /\ UsedBefore(r, i.token)) =>
            /\ (now < expires_at(i)) <=> (req'[r].grant = i.token.payload)
            /\ (now < expires_at(i)) =>
                 /\ req'[r].status # 401
                 /\ req'[r].via = IF req'[r].action = "ignore" THEN ""
                                  ELSE req'[r].action]_vars

\* the token has carried one successful stop and a later request that
\* presents it again has reached the external stop call
C21_Witness ==
    \E r \in ReqIds : \E i \in issued :
        /\ req[r].token = i.token
        /\ req[r].pc = "instances.stop"
        /\ \E e \in DOMAIN executed : executed[e] # <<>>

-----------------------------------------------------------------------------
(* External calls of one request *)

\* request r returns from the external stop call in this step
StopCallReturns(r) == req[r].pc = "instances.stop" /\ req'[r] # req[r]

\* a disk snapshot of request r fails in this step
SnapshotFails(r) ==
    /\ req[r].pc = "create_snapshot"
    /\ Len(req'[r].snapshots) = Len(req[r].snapshots) + 1
    /\ ~req'[r].snapshots[Len(req'[r].snapshots)].success

\* C22: nothing is retried.  One request makes the external stop call at
\* most once and the external snapshot call at most once for each disk
\* (one loop turn per disk); a failed snapshot or a failed stop call ends
\* the request as Failed (400) in the same step, and a request that has
\* its response makes no call and changes nothing after it.
C22_NoRetries ==
    [][Len(req') >= Len(req) =>
         \A r \in ReqIds :
            /\ Count(req'[r].log, "instances.stop") <= 1
            /\ Count(req'[r].log, "snapshots.insert") <= Len(req'[r].snapshots)
            /\ Count(req'[r].log, "disks.get") <= Len(req'[r].snapshots)
            /\ Len(req'[r].snapshots) <= req'[r].ndisks
            /\ Done(r) => req'[r] = req[r]
            /\ StopCallReturns(r) => req'[r].pc = "done"
            /\ (StopCallReturns(r) /\ req'[r].status # 200) =>
                  /\ req'[r].status = 400
                  /\ req'[r].log = Append(req[r].log, "instances.stop")
            /\ SnapshotFails(r) =>
                  /\ req'[r].pc = "done"
                  /\ req'[r].status = 400]_vars

\* a snapshot request has ended Failed after two snapshots and one stop call
C22_Witness ==
    \E r \in ReqIds : /\ Done(r)
                      /\ req[r].status = 400
                      /\ Count(req[r].log, "snapshots.insert") = 2
                      /\ Count(req[r].log, "instances.stop") = 1
                      /\ req[r].log[Len(req[r].log)] = "instances.stop"

-----------------------------------------------------------------------------
(* The checks of validate_action one by one (checked under SpecPolicy)     *)

\* C23: the high-cost check never blocks.  validate_action allows the
\* action exactly when the resource passes the blocklist check and the
\* actor is below the rate limit, whatever estimated_savings is; on an
\* allowed verdict needs_confirmation is set, with the reason that names the
\* amount, exactly when estimated_savings is at or above the threshold.
C23_HighCostNeverBlocks ==
    polRes.called =>
        LET v == polRes.verdict
        IN  /\ v.is_safe <=> (~Blocklisted /\ RecordedInWindow < MaxActionsPerHour)
            /\ v.is_safe =>
                 /\ v.needs_confirmation <=>
                        (polRes.estimated_savings >= ConfirmationThreshold)
                 /\ v.needs_confirmation =>
                        v.confirmation_reason =
                            <<"High-cost action: $", Fmt2f(polRes.estimated_savings),
                              "/month requires confirmation">>
                 /\ ~v.needs_confirmation => v.confirmation_reason = <<>>
            /\ ~v.is_safe => ~v.needs_confirmation

\* a call with estimated_savings equal to the threshold has been allowed and
\* asks for confirmation
C23_Witness ==
    /\ polRes.called
    /\ polRes.estimated_savings = ConfirmationThreshold
    /\ polRes.verdict.is_safe
    /\ polRes.verdict.needs_confirmation

\* C24: validate_action runs blocklist, rate limit, high cost and the
\* dry-run annotation in this order and returns at the first check that
\* blocks.  When the blocklist check blocks, the rate-limit check is not
\* evaluated: the actor's entries in _action_history are left as they were,
\* stale entries included.  checks_failed holds the one check that blocked,
\* with its reason, and checks_passed the checks that ran before it, in order.
C24_ChecksInOrder ==
    polRes.called =>
        LET v == polRes.verdict
            bl == check_blocklist(polRes.labels)
            left == action_history[polRes.user_email]
        IN  IF bl.blocked
            THEN /\ v.checks_passed = <<>>
                 /\ v.checks_failed = << <<"blocklist", bl.reason>> >>
                 /\ left = polRes.before
                 /\ ~v.needs_confirmation /\ ~v.dry_run_mode
            ELSE IF RecordedInWindow >= MaxActionsPerHour
            THEN /\ v.checks_passed = <<"blocklist">>
                 /\ v.checks_failed =
                        << <<"rate_limit", RateLimitReason(RecordedInWindow)>> >>
                 /\ left = recent_entries(polRes.before, polRes.at)
                 /\ ~v.needs_confirmation /\ ~v.dry_run_mode
            ELSE /\ v.checks_passed = <<"blocklist", "rate_limit", "high_cost">>
                 /\ v.checks_failed = <<>>
                 /\ left = recent_entries(polRes.before, polRes.at)
                 /\ v.dry_run_mode = dry_run

\* the blocklist check has blocked a call of an actor who has an entry older
\* than an hour, and the entry is still there
C24_Witness ==
    /\ polRes.called
    /\ Blocklisted
    /\ polRes.before # <<>>
    /\ polRes.before[1] <= polRes.at - Hour
    /\ action_history[polRes.user_email] = polRes.before

-----------------------------------------------------------------------------
(* Properties of the detector and the check cycle (checked under SpecWatch, *)
(* C29 under SpecStore)                                                     *)

\* the samples detect_anomaly has used: the 7 most recent of the baseline
Recent == recent_spends(state)

\* the baseline has at least 3 recent samples and they are all equal
FlatBaseline == Len(Recent) >= 3 /\ \A k \in DOMAIN Recent : Recent[k] = Recent[1]

\* C25 (as stated): with a baseline of at least 3 recent samples of one
\* value v, under every sensitivity threshold, a current spend of v is not
\* an anomaly and every current spend above v is one.
C25_Original ==
    (check.detected /\ FlatBaseline) =>
        /\ check.today_spend = Recent[1] => ~check.anomaly.is_anomaly
        /\ check.today_spend > Recent[1] => check.anomaly.is_anomaly

\* C25 (amended): the same for every sensitivity threshold T with
\* 0 <= T < 5.0, the score given to a spend above a flat baseline.
C25_FlatBaseline ==
    (check.detected /\ FlatBaseline /\ anomaly_sensitivity >= 0 /\ anomaly_sensitivity < 500) =>
        /\ check.today_spend = Recent[1] => ~check.anomaly.is_anomaly
        /\ check.today_spend > Recent[1] => check.anomaly.is_anomaly

\* a spend of half a dollar above a flat baseline has been found anomalous
\* under the default sensitivity
C25_Witness ==
    /\ check.detected
    /\ FlatBaseline
    /\ check.today_spend = Recent[1] + 1
    /\ anomaly_sensitivity = 250
    /\ check.anomaly.is_anomaly

\* C26: with fewer than 3 recent samples in the baseline, the empty
\* baseline included, detect_anomaly returns for every current spend a
\* verdict that is not an anomaly and has severity unknown; nothing is
\* raised, and the cycle ends without invoking the notifier, issuing a token
\* or sending an e-mail.
C26_InsufficientBaseline ==
    (check.detected /\ Len(Recent) < 3) =>
        /\ ~check.anomaly.is_anomaly
        /\ check.anomaly.severity = "unknown"
        /\ check.status = "success"
        /\ check.pc = "done"
        /\ ~check.anomaly_detected
        /\ ~check.alerted
        /\ issued = {}
        /\ mail = <<>>

\* detection has run on a baseline of two different days and a current
\* spend far above both
C26_Witness ==
    /\ check.detected
    /\ Len(state) = 2
    /\ state[1] # state[2]
    /\ check.today_spend = 29
    /\ check.anomaly.message.text = "Need at least 3 days of data"

\* C27: with a baseline of 7 days of $10.00, a current spend of $14.50 and
\* sensitivity 2.5, detect_anomaly takes the branch of a zero standard
\* deviation and returns z_score 5.0, is_anomaly true, severity critical,
\* baseline 10.0 and deviation_percent 45.0.
C27_EndToEndScenario ==
    (check.detected /\ state = Flat(20, 7) /\ check.today_spend = 29
       /\ anomaly_sensitivity = 250) =>
        /\ SumSquares(Recent) = 0
        /\ check.anomaly.z_score = 500
        /\ check.anomaly.is_anomaly
        /\ check.anomaly.severity = "critical"
        /\ check.anomaly.baseline = 1000
        /\ check.anomaly.deviation_percent = 450

\* the scenario has been run
C27_Witness ==
    /\ check.detected
    /\ state = Flat(20, 7)
    /\ check.today_spend = 29
    /\ anomaly_sensitivity = 250
    /\ check.anomaly.current = 1450

\* C28: a failed write of the baseline file does not abort the cycle.  The
\* in-memory baseline is the freshly fetched pattern, detection runs on it,
\* the notifier is invoked when the verdict is anomalous, and the failed
\* write never makes the status of the cycle an error.
C28_SaveFailureIsNotFatal ==
    check.saved = "failed" =>
        /\ state = check.daily_pattern
        /\ check.pc # "done" \/ check.detected \/ check.error = "billing"
        /\ check.error # "save"
        /\ check.status = "error" <=> check.error = "billing"
        /\ check.detected =>
             /\ check.anomaly = detect_anomaly(check.daily_pattern, check.today_spend,
                                               anomaly_sensitivity)
             /\ check.anomaly.is_anomaly =>
                  /\ check.anomaly_detected
                  /\ check.pc = "_send_alert_email" \/ check.alerted

\* the write failed while the file was open, and the alert of that cycle has
\* been delivered
C28_Witness ==
    /\ check.saved = "failed"
    /\ state_file = truncated
    /\ check.status = "success"
    /\ mail # <<>>
    /\ mail[1].delivered

\* C29: a process that loads the baseline file while the watcher saves it
\* gets the complete previous state or the complete new state, never the
\* empty state of a file that is cut short.
C29_AtomicPersistence ==
    loaded.called =>
        /\ loaded.file.exists => loaded.file.whole
        /\ loaded.daily_spend \in {check.before, check.daily_pattern}

\* C29 (the case at hand): the second process has read the file between
\* open(state_file, 'w') and the end of json.dump and has fallen back to the
\* empty baseline, while the previous and the new baseline are not empty
C29_TornRead ==
    /\ loaded.called
    /\ loaded.file = truncated
    /\ loaded.daily_spend = <<>>
    /\ check.before # <<>>
    /\ check.daily_pattern # <<>>

\* the tokens of the action URLs built so far
UrlTokens == {check.urls[k].token : k \in DOMAIN check.urls}

\* C30: an alert has exactly three action URLs, for stop, snapshot and
\* ignore in this order; each carries a token of its own whose action is
\* the action of the URL's path; the three tokens have different jti and
\* the same resource_id, project_id, estimated_savings and user_email.
C30_ThreeActionUrls ==
    /\ (check.pc = "send" \/ mail # <<>>) => Len(check.urls) = 3
    /\ \A k \in DOMAIN mail : mail[k].action_urls = check.urls
    /\ Len(check.urls) <= 3
    /\ {i.token : i \in issued} = UrlTokens
    /\ \A k \in DOMAIN check.urls :
         LET url == check.urls[k]
         IN  /\ url.path = <<"/api/v1/execute/", actions[k]>>
             /\ validate_token(url.token).kind = "grant"
             /\ url.token.payload.action = url.path[2]
             /\ url.token.payload.resource_id = check.resource_id
             /\ url.token.payload.project_id = GCP_PROJECT_ID
             /\ url.token.payload.estimated_savings = alert_savings(check.anomaly)
             /\ url.token.payload.user_email = ALERT_EMAIL
             /\ \A j \in DOMAIN check.urls :
                  j # k => check.urls[j].token.payload.jti # url.token.payload.jti

\* an alert with three action URLs and positive savings has been delivered
C30_Witness ==
    /\ mail # <<>>
    /\ mail[1].delivered
    /\ Len(mail[1].action_urls) = 3
    /\ Cardinality(UrlTokens) = 3
    /\ alert_savings(check.anomaly) > 0

-----------------------------------------------------------------------------
(* The order of a check cycle (checked under SpecWatch)                    *)

\* the steps of a check cycle in their order
CycleSteps == <<"query", "update_baseline", "detect_anomaly", "_send_alert_email">>

\* the steps taken so far are the first steps of the cycle, in order
StepsInOrder ==
    /\ Len(check.log) <= Len(CycleSteps)
    /\ \A k \in DOMAIN check.log : check.log[k] = CycleSteps[k]

\* the notifier is invoked exactly for an anomalous verdict, and nothing is
\* issued or sent without one
NotifierIffAnomaly ==
    /\ check.alerted => (check.detected /\ check.anomaly.is_anomaly)
    /\ (check.detected /\ check.anomaly.is_anomaly)
          => (check.pc = "_send_alert_email" \/ check.alerted)
    /\ (issued # {} \/ mail # <<>>) => check.alerted
    /\ (check.detected /\ check.budget_exceeded /\ ~check.anomaly.is_anomaly) =>
          /\ check.pc = "done"
          /\ ~check.alerted
          /\ issued = {}
          /\ mail = <<>>

\* C31 (as stated): a cycle fetches the billing data, replaces the baseline,
\* runs detection and then invokes the notifier and issues tokens if and
\* only if the verdict is anomalous; a cycle over the budget threshold with
\* a verdict that is not anomalous issues no token and sends no alert.
C31_Original ==
    /\ StepsInOrder
    /\ NotifierIffAnomaly
    /\ (check.pc = "done" /\ check.detected /\ check.anomaly.is_anomaly) => issued # {}

\* C31 (amended): the same, with tokens issued only for an anomalous verdict
\* and always three of them once the notifier has a mail client; a notifier
\* that raises or has no mail client issues none.
C31_CycleOrder ==
    /\ StepsInOrder
    /\ NotifierIffAnomaly
    /\ issued # {} => check.anomaly.is_anomaly
    /\ (check.pc \in {"send", "done"} /\ check.urls # <<>>) => Cardinality(issued) = 3
    /\ check.pc = "done" => Cardinality(issued) \in {0, 3}

\* a cycle over the budget threshold has ended with a verdict that is not
\* anomalous, after all three earlier steps
C31_Witness ==
    /\ check.pc = "done"
    /\ check.log = SubSeq(CycleSteps, 1, 3)
    /\ check.budget_exceeded
    /\ ~check.anomaly.is_anomaly
    /\ Len(Recent) >= 3

-----------------------------------------------------------------------------
(* The anomaly flag and the severity of a verdict (checked under SpecWatch) *)

\* the z-score detect_anomaly has computed, before it is rounded
Computed == z_score(Recent, check.today_spend)

\* z <= t / 100
ZAtMost(z, t) ==
    IF t >= 0 THEN z.sgn <= 0 \/ 10000 * z.num <= t * t * z.den
    ELSE z.sgn < 0 /\ 10000 * z.num >= t * t * z.den

\* the ladder value of a z-score: critical, high, medium or low
Ladder(z) ==
    CASE ~ZAtMost(z, 300) -> "critical"
      [] ZAtMost(z, 300) /\ ~ZAtMost(z, 250) -> "high"
      [] ZAtMost(z, 250) /\ ~ZAtMost(z, 200) -> "medium"
      [] OTHER -> "low"

\* C32: for a baseline with at least 3 recent samples is_anomaly is true
\* exactly when the computed z_score is strictly greater than the
\* sensitivity threshold, so that a z_score equal to the threshold is not an
\* anomaly; the severity is normal exactly when is_anomaly is false and the
\* ladder value of the z_score otherwise; under the default threshold 2.5 an
\* anomalous verdict is high or critical.  The z_score reported in the
\* verdict is the computed one rounded to 2 decimals, so that it is never
\* below the threshold of an anomalous verdict.
C32_AnomalyAndSeverity ==
    (check.detected /\ Len(Recent) >= 3) =>
        /\ check.anomaly.is_anomaly = ~ZAtMost(Computed, anomaly_sensitivity)
        /\ check.anomaly.threshold = anomaly_sensitivity
        /\ (check.anomaly.severity = "normal") = ~check.anomaly.is_anomaly
        /\ check.anomaly.is_anomaly => check.anomaly.severity = Ladder(Computed)
        /\ (check.anomaly.is_anomaly /\ anomaly_sensitivity = 250)
              => check.anomaly.severity \in {"high", "critical"}
        /\ check.anomaly.is_anomaly => check.anomaly.z_score >= anomaly_sensitivity
        /\ check.anomaly.z_score > anomaly_sensitivity => check.anomaly.is_anomaly

\* a spend with a z-score of exactly 2.5 against a baseline of three
\* different amounts has been judged under the default threshold 2.5
C32_Witness ==
    /\ check.detected
    /\ Len(Recent) = 3
    /\ ~FlatBaseline
    /\ anomaly_sensitivity = 250
    /\ check.anomaly.z_score = 250
    /\ Computed.sgn = 1
    /\ 4 * Computed.num = 25 * Computed.den
    /\ ~check.anomaly.is_anomaly
    /\ check.anomaly.severity = "normal"

-----------------------------------------------------------------------------
(* The generic blocklist check (checked under SpecPolicy)                  *)

\* the configured tags that equal, ignoring letter case, a label key or a
\* label value of the resource, by their place in the configuration
MatchingTags(labels) ==
    {i \in DOMAIN blocklist_tags :
        \E k \in DOMAIN labels :
            \/ Lower(k) = Lower(blocklist_tags[i])
            \/ Lower(labels[k]) = Lower(blocklist_tags[i])}

\* the resource carries a production env label, or a production environment
\* label and no env label
ProductionLabel(labels) ==
    \/ "env" \in DOMAIN labels /\ Lower(labels["env"]) \in {"production", "prod"}
    \/ /\ "env" \notin DOMAIN labels
       /\ "environment" \in DOMAIN labels
       /\ Lower(labels["environment"]) \in {"production", "prod"}

\* C33: the generic blocklist check blocks a resource exactly when some
\* configured tag equals, ignoring letter case, one of its label keys or one
\* of its label values, and the reason names the configured tag that
\* matched (the first one in the configuration); a resource with no such
\* match and no production env/environment label is not blocked.
C33_GenericBlocklist ==
    polRes.called =>
        LET hits == MatchingTags(polRes.labels)
            v == polRes.verdict
        IN  IF hits # {}
            THEN /\ ~v.is_safe
                 /\ Len(v.checks_failed) = 1
                 /\ v.checks_failed[1][1] = "blocklist"
                 /\ v.reason = v.checks_failed[1][2]
                 /\ Len(v.reason) = 2
                 /\ v.reason[1] \in {"Resource has blocklisted label: ",
                                     "Resource has blocklisted label value: "}
                 /\ \E i \in hits : /\ v.reason[2] = blocklist_tags[i]
                                    /\ \A j \in hits : i <= j
            ELSE IF ProductionLabel(polRes.labels)
                 THEN /\ ~v.is_safe
                      /\ v.reason = <<"Resource is marked as production environment">>
                 ELSE "blocklist" \notin FailedChecks(v)

\* a resource whose label value Critical matches the configured tag
\* critical, the third of the configuration, has been blocked
C33_Witness ==
    /\ polRes.called
    /\ blocklist_tags = DefaultTags
    /\ polRes.labels = [k \in {"tier"} |-> "Critical"]
    /\ polRes.verdict.reason = <<"Resource has blocklisted label value: ", "critical">>

-----------------------------------------------------------------------------
(* The high-cost check of an executed request (checked under Spec)         *)

\* C34: when a stop or snapshot request is executed, the high-cost check is
\* evaluated against the estimated_savings of the validated grant: a request
\* whose grant has estimated_savings at or above the confirmation threshold
\* and that passes the blocking checks gets a verdict with
\* needs_confirmation set.
C34_GrantSavingsChecked ==
    \A r \in ReqIds :
        (/\ req[r].checked
         /\ req[r].verdict.is_safe
         /\ req[r].grant.estimated_savings >= ConfirmationThreshold)
            => req[r].verdict.needs_confirmation

\* a request whose grant carries estimated_savings of $150 has passed
\* validate_action with a verdict that asks for no confirmation
C34_SavingsDropped ==
    \E r \in ReqIds :
        /\ req[r].checked
        /\ req[r].action \in {"stop", "snapshot"}
        /\ req[r].grant.estimated_savings = 150
        /\ req[r].verdict.is_safe
        /\ "high_cost" \in {req[r].verdict.checks_passed[k] : k \in DOMAIN req[r].verdict.checks_passed}
        /\ ~req[r].verdict.needs_confirmation

-----------------------------------------------------------------------------
(* Termination of a request (checked under SpecLive)                       *)

\* request r has ended with exactly one of the outcomes: its token was
\* rejected, the action succeeded, or it failed (blocked, failed in
\* execution, or the executor could not be created)
OneOutcome(r) ==
    /\ req[r].status \in {200, 400, 401, 500}
    /\ req[r].status = 401 <=> req[r].grant = NoPayload
    /\ req[r].status = 200 <=> req[r].title \in {"Action Completed", "Alert Dismissed"}

\* C35: every request to the action entry point reaches exactly one
\* terminal outcome (token rejected, Failed or Succeeded) after finitely
\* many steps, provided each external call returns.  The request at the head
\* of the queue is begun and reaches its outcome, its response is sent, and
\* the requests behind it wait in their order and move up by one place, so
\* that each of them becomes the head; no request stays forever in an
\* earlier state, and a request that has its outcome keeps it unchanged
\* until the response is sent.
C35_EveryRequestEnds ==
    /\ \/ []<>(req = <<>> \/ issued = {})
       \/ []<><<\E r \in ReqIds : Reply(r)>>_vars
    /\ [](\A r \in ReqIds : Done(r) <=> req[r].status # 0)
    /\ [](\A r \in ReqIds : Done(r) => OneOutcome(r))
    /\ [](\A r \in ReqIds : r > 1 => req[r].pc = "queued")
    /\ [][/\ Len(req') < Len(req) => (req[1].pc = "done" /\ req' = Tail(req))
          /\ Len(req') >= Len(req) =>
                (\A r \in ReqIds : (r > 1 \/ Done(r)) => req'[r] = req[r])]_vars

\* a request has gone through token validation, the policy check and the
\* external stop call, and has ended
C35_Witness ==
    \E r \in ReqIds :
        /\ Done(r)
        /\ req[r].checked
        /\ req[r].log # <<>>
        /\ req[r].log[Len(req[r].log)] \in {"instances.stop", "record_action"}

-----------------------------------------------------------------------------
(* Rate limiting actor by actor (checked under SpecPolicy)                 *)

\* this step is a rate-limit check for actor e or records an action of e
StepOfActor(e) ==
    \/ polRes'.called /\ ~polRes.called /\ polRes'.user_email = e
    \/ polRes.called /\ ~polRes'.called /\ polRes.user_email = e

\* C36: rate limiting is isolated per actor.  A rate-limit check or a
\* recorded action for one actor never changes the entries of another
\* actor; the rate-limit verdict an actor receives is determined by that
\* actor's own entries within the trailing hour, so that an actor who has
\* recorded nothing in the trailing hour is never rate-limited, however many
\* actions other actors performed.
C36_PerActorIsolation ==
    /\ [][\A e \in Emails :
            action_history'[e] # action_history[e] => StepOfActor(e)]_vars
    /\ [](polRes.called =>
            /\ polRes.verdict.history = action_history[polRes.user_email]
            /\ ("rate_limit" \in FailedChecks(polRes.verdict))
                 <=> (~Blocklisted /\ RecordedInWindow >= MaxActionsPerHour)
            /\ (RecordedInWindow = 0 /\ ~Blocklisted) => polRes.verdict.is_safe)

\* an actor with nothing recorded has been allowed while another actor has
\* MaxActionsPerHour actions within the trailing hour
C36_Witness ==
    /\ polRes.called
    /\ polRes.before = <<>>
    /\ polRes.verdict.is_safe
    /\ \E e \in Emails \ {polRes.user_email} :
          Cardinality(InWindow(action_history[e], now)) = MaxActionsPerHour

-----------------------------------------------------------------------------
(* The rate window under sequential requests (checked under Spec)          *)

\* the rate-limit check has been evaluated for request r in this step
RateLimitChecked(r) ==
    /\ ~req[r].checked
    /\ r \in DOMAIN req' /\ req'[r].checked
    /\ "blocklist" \notin FailedChecks(req'[r].verdict)

\* C37: with requests handled one after the other and dry-run off, at every
\* moment every actor has at most max_actions_per_hour recorded actions with
\* timestamps within the trailing hour, and after each rate-limit check for
\* an actor that actor's entries are all strictly newer than one hour before
\* the check.
C37_WindowIsBounded ==
    /\ [](~dry_run =>
            \A e \in Emails :
                Cardinality(InWindow(action_history[e], now)) <= MaxActionsPerHour)
    /\ [][~dry_run =>
            \A r \in ReqIds : RateLimitChecked(r) =>
                LET window == action_history'[req'[r].user_email]
                IN  /\ window = req'[r].verdict.history
                    /\ \A k \in DOMAIN window : window[k] > now - Hour]_vars

\* an actor has max_actions_per_hour actions within the trailing hour after
\* an older entry was dropped by a rate-limit check
C37_Witness ==
    /\ ~dry_run
    /\ \E e \in Emails :
          /\ Cardinality(InWindow(action_history[e], now)) = MaxActionsPerHour
          /\ Len(action_history[e]) < Len(executed[e])

-----------------------------------------------------------------------------
(* The resource of an alert (checked under SpecWatch)                      *)

\* C38: when an alert is sent and the billing layer returned a top
\* contributor, the resource_id of the tokens issued for that alert
\* identifies the first contributor of the list, not the placeholder
\* unknown.
C38_TokensNameTopContributor ==
    \A k \in DOMAIN mail :
        check.top_contributors # <<>> =>
            \A u \in DOMAIN mail[k].action_urls :
                LET resource_id == mail[k].action_urls[u].token.payload.resource_id
                IN  /\ resource_id # "unknown"
                    /\ resource_id = check.top_contributors[1].service_name

\* an alert has been delivered whose tokens carry the resource_id unknown
\* while Compute Engine is the top contributor
C38_UnknownResource ==
    /\ mail # <<>>
    /\ mail[1].delivered
    /\ check.top_contributors = <<[service_name |-> "Compute Engine"]>>
    /\ Len(mail[1].action_urls) = 3
    /\ \A u \in DOMAIN mail[1].action_urls :
          mail[1].action_urls[u].token.payload.resource_id = "unknown"

-----------------------------------------------------------------------------
(* A resource that is not found (checked under Spec)                       *)

\* a status query of request r has reported the instance as not found, or
\* has failed: get_instance returned None
QueryFailed(r) ==
    /\ Done(r)
    /\ req[r].status_seen = "not found" \/ req[r].log = <<"instances.get">>

\* the status query of request r fails in this step
QueryFails(r) ==
    /\ ~Done(r)
    /\ r \in DOMAIN req' /\ req'[r].pc = "done"
    /\ req'[r].status_seen = "not found" \/ req'[r].log = <<"instances.get">>

\* C39 (as stated): if the resource status query reports the target as not
\* found, or fails, a stop or snapshot request ends Failed without
\* evaluating the policy engine and without any external mutation call, no
\* snapshot and no stop.
C39_Original ==
    \A r \in ReqIds :
        QueryFailed(r) =>
            /\ req[r].status = 400
            /\ ~req[r].checked
            /\ Range(req[r].log) \cap Mutations = {}

\* C39 (amended): such a request ends Failed without evaluating the policy
\* engine, without an external stop call and without a change of any rate
\* window, and without any snapshot call when the query that failed is the
\* first one of the request; a snapshot request whose instance was found at
\* first makes its snapshot calls before stop_instance repeats the query,
\* and when that second query fails it ends Failed with the snapshots made.
C39_NotFoundEndsFailed ==
    /\ [](\A r \in ReqIds :
            QueryFailed(r) =>
                /\ req[r].status = 400
                /\ req[r].title = "Action Failed"
                /\ ~req[r].checked
                /\ req[r].verdict = NoVerdict
                /\ "instances.stop" \notin Range(req[r].log)
                /\ Count(req[r].log, "instances.get") = 1
                      => Range(req[r].log) \cap Mutations = {}
                /\ Range(req[r].log) \cap Mutations # {}
                      => /\ req[r].via = "snapshot"
                         /\ Count(req[r].log, "instances.get") = 2
                         /\ req[r].message[1] = "Snapshots created but failed to stop: ")
    /\ [][\A r \in ReqIds :
            QueryFails(r) => (action_history' = action_history /\ executed' = executed)]_vars

\* a stop request has ended Failed on an instance that was not found
C39_Witness ==
    \E r \in ReqIds :
        /\ QueryFailed(r)
        /\ req[r].via = "stop"
        /\ req[r].status_seen = "not found"
        /\ req[r].log = <<"instances.get">>
        /\ req[r].message = <<"Instance not found: ", req[r].instance_name>>

-----------------------------------------------------------------------------
(* Failures of the collaborators of a check cycle (checked under SpecWatch) *)

\* the cycle has ended: run_check returns check_result
Returned == check.pc = "done"

\* C40: no collaborator failure escapes a check cycle.  Until run_check has
\* returned, the cycle has a next step whatever its collaborators did; the
\* result has status success or error; if a billing query raised, the
\* result has status error and no alert is sent in that cycle; if the
\* notifier was invoked, whether it delivered, failed or raised, the result
\* has status success and anomaly_detected = true.
C40_NoFailureEscapes ==
    /\ ~Returned => ENABLED WatchNext
    /\ check.status \in {"success", "error"}
    /\ check.status = "error" <=> check.error # ""
    /\ check.status = "error" =>
          /\ Returned
          /\ check.error = "billing"
          /\ ~check.alerted
          /\ ~check.anomaly_detected
          /\ issued = {}
          /\ mail = <<>>
    /\ check.alerted =>
          /\ check.status = "success"
          /\ check.anomaly_detected
    /\ (Returned /\ check.detected /\ check.anomaly.is_anomaly) =>
          /\ check.alerted
          /\ check.status = "success"
          /\ check.anomaly_detected

\* the notifier raised after an anomaly was detected, and run_check has
\* returned success with anomaly_detected = true and nothing sent
C40_Witness ==
    /\ Returned
    /\ check.alerted
    /\ check.resource_id = ""
    /\ check.anomaly.is_anomaly
    /\ check.status = "success"
    /\ check.anomaly_detected
    /\ mail = <<>>

=============================================================================
